---- MODULE Spec2Model ----
(***************************************************************************)
(* Word sense disambiguation: the hybrid sense-scoring engine of           *)
(* app_clean_ui.py (hybrid_predict and the "Analyze Meaning" handler that  *)
(* calls it).                                                              *)
(*                                                                         *)
(* Representation.                                                         *)
(*  - A text (Python str) is a sequence of one-character strings; a token  *)
(*    is a non-empty text; Python's None for a synset is NoneSyn.          *)
(*  - Python lists are 1-based sequences here: index i of the code is      *)
(*    index i+1 of the model.                                              *)
(*  - Floats are exact rationals at a fixed scale.  A neural probability p *)
(*    is the integer p*Unit (tenths), ALPHA is 6 tenths, and the           *)
(*    normalised knowledge score kb/(max_kb + 1e-6) is the numerator       *)
(*    kb*EpsInv over the per-request denominator KbDen(max_kb) =           *)
(*    max_kb*EpsInv + 1.  A fused score is its numerator over              *)
(*    HybridDen(max_kb) = Unit*Unit*KbDen(max_kb).                         *)
(*  - The lexical resource wn and the neural scorer are collaborators: wn  *)
(*    is a table drawn at Init, a scorer call answers any value of Probs.  *)
(***************************************************************************)
EXTENDS Integers, Sequences, FiniteSets, TLC

VARIABLES
    wn,            \* lexical resource: the ordered senses of the lemma "bank"
    pc,            \* position of the request: idle, bert, returned, raised,
                   \* done
    caller,        \* who called hybrid_predict: "ui" (the handler) or "api"
    sentence,      \* argument of hybrid_predict
    target_word,   \* argument of hybrid_predict
    candidates,    \* wn.synsets(target_word.lower())
    kb_scores,     \* one knowledge_score per candidate
    max_kb,        \* max(kb_scores), 0 for none
    top_idx,       \* sorted_idx[:TOP_K]
    norm_kb,       \* numerators of kb/(max_kb+1e-6), per entry of top_idx
    bert_scores,   \* neural probabilities collected so far (tenths)
    bert_calls,    \* log: candidate index of every neural scorer invocation
    combined,      \* the ranked list
    best,          \* the best sense, NoneSyn for None
    wiki_called,   \* the handler ran get_wikipedia_context for this request
    wiki_context,  \* what get_wikipedia_context returned, NoContext for None
    wikipedia_available,  \* WIKIPEDIA_AVAILABLE: the import succeeded
    wiki_cache,    \* the files of CACHE_DIR: cache key -> stored summary
    first,         \* history: one completed call (sessions only)
    called,        \* the helper function applied on its own, "" for none
    arg_text,      \* its text argument (sentence, context, text)
    arg_word,      \* its word argument
    arg_syn,       \* its synset argument
    ret,           \* what it returned
    lpc,           \* position in get_wikipedia_summary: idle, search,
                   \* summary, save, done
    search_terms,  \* its search_terms
    term_i,        \* the index of the term the loop is at
    summary,       \* its summary
    requests,      \* log: the network requests of the call, in order
    hit,           \* the call was answered from the cache
    error,         \* an exception reached the outer except clause
    cache_error,   \* a cache file could not be read or written in the call
    lookups,       \* the number of calls of get_wikipedia_summary so far
    written_for,   \* history: cache key -> the word and topic of the call
                   \* that wrote the file
    table_writes   \* log: the assignments made to the keyword catalogs and
                   \* to CONTEXT_SEARCH_MAPPINGS since the import

vars == <<wn, pc, caller, sentence, target_word, candidates, kb_scores, max_kb,
          top_idx, norm_kb, bert_scores, bert_calls, combined, best,
          wiki_called, wiki_context, wikipedia_available, wiki_cache, first,
          called, arg_text, arg_word, arg_syn, ret,
          lpc, search_terms, term_i, summary, requests, hit, error,
          cache_error, lookups, written_for, table_writes>>

\* The variables of a call of get_wikipedia_summary.
lookupVars == <<lpc, search_terms, term_i, summary, requests, hit, error,
                cache_error, lookups, written_for>>

\* The variables of a helper function applied on its own.
callVars ==
    <<called, arg_text, arg_word, arg_syn, ret, lookupVars, table_writes>>

\* The variables of a request.
requestVars ==
    <<wn, pc, caller, sentence, target_word, candidates, kb_scores, max_kb,
      top_idx, norm_kb, bert_scores, bert_calls, combined, best,
      wiki_called, wiki_context, wikipedia_available, wiki_cache, first>>

-----------------------------------------------------------------------------
\* Bounds of the model.

\* Longest sense list the lexical resource holds for one lemma.
MaxSenses == 7

\* Longest sense list in the session specification.
SessionSenses == 2

-----------------------------------------------------------------------------
\* Program constants.

TOP_K == 6

\* ALPHA = 0.6, in tenths.
ALPHA == 6

\* The float 1 of (1 - ALPHA), in tenths.
Unit == 10

\* 1e-6 is 1/EpsInv.
EpsInv == 1000000

-----------------------------------------------------------------------------
\* Characters and the str methods the code uses.

LowerLetters == <<"a","b","c","d","e","f","g","h","i","j","k","l","m",
                  "n","o","p","q","r","s","t","u","v","w","x","y","z">>
UpperLetters == <<"A","B","C","D","E","F","G","H","I","J","K","L","M",
                  "N","O","P","Q","R","S","T","U","V","W","X","Y","Z">>
Digits == {"0","1","2","3","4","5","6","7","8","9"}
\* The whitespace str.split() and re's \s both recognise; space and tab stand
\* for all of it.
Whitespace == {" ", "\t"}

Range(s) == {s[i] : i \in DOMAIN s}

UpperLetterChars == Range(UpperLetters)

\* A letter outside ASCII, capital and small (E with acute accent).
UpperAccented == "U+00C9"
LowerAccented == "U+00E9"

\* str.lower() on one character.
LowerChar(c) ==
    IF c \in UpperLetterChars
    THEN LowerLetters[CHOOSE i \in DOMAIN UpperLetters : UpperLetters[i] = c]
    ELSE IF c = UpperAccented THEN LowerAccented ELSE c

\* str.lower()
Lower(text) == [i \in DOMAIN text |-> LowerChar(text[i])]

\* str.split(): maximal runs of non-whitespace characters, in order.
RECURSIVE SplitFrom(_, _, _)
SplitFrom(text, i, cur) ==
    IF i > Len(text)
    THEN IF cur = <<>> THEN <<>> ELSE <<cur>>
    ELSE IF text[i] \in Whitespace
         THEN IF cur = <<>>
              THEN SplitFrom(text, i + 1, <<>>)
              ELSE <<cur>> \o SplitFrom(text, i + 1, <<>>)
         ELSE SplitFrom(text, i + 1, Append(cur, text[i]))

Split(text) == SplitFrom(text, 1, <<>>)

\* str.strip() is non-empty exactly when some character is not whitespace.
StripNonEmpty(text) == \E i \in DOMAIN text : text[i] \notin Whitespace

\* " ".join(parts)
RECURSIVE JoinSpace(_)
JoinSpace(parts) ==
    IF parts = <<>> THEN <<>>
    ELSE IF Len(parts) = 1 THEN parts[1]
    ELSE parts[1] \o <<" ">> \o JoinSpace(Tail(parts))

\* The characters re's [a-z0-9\s] matches.
LowerAlnumOrSpace == Range(LowerLetters) \cup Digits \cup Whitespace

IsLowerAlnumOrSpace(c) == c \in LowerAlnumOrSpace

\* The characters re's \w matches: letters of any script, digits and "_".
WordChars ==
    Range(LowerLetters) \cup UpperLetterChars \cup Digits \cup
    {"_", UpperAccented, LowerAccented}

IsWordChar(c) == c \in WordChars

SimpleTokenizeCased(text) ==
    LET sub == [i \in DOMAIN text |->
                   IF IsLowerAlnumOrSpace(text[i]) THEN text[i] ELSE " "]
    IN  Split(sub)

\* re.sub(r"[^a-z0-9\s]", " ", text.lower()).split()
simple_tokenize(text) ==
    LET low == Lower(text)
        sub == [i \in DOMAIN low |->
                   IF IsLowerAlnumOrSpace(low[i]) THEN low[i] ELSE " "]
    IN  Split(sub)

\* re.sub(r'[^\w]', '', token)
CleanWord(token) == SelectSeq(token, IsWordChar)

\* extract_words_only: (i, clean_word, token) for the tokens whose clean form
\* is non-empty; i is the token's 0-based index among the whitespace tokens.
extract_words_only(s) ==
    LET tokens == Split(s)
        all == [i \in DOMAIN tokens |->
                   <<i - 1, CleanWord(tokens[i]), tokens[i]>>]
        Keep(w) == w[2] # <<>>
    IN  SelectSeq(all, Keep)

-----------------------------------------------------------------------------
\* The lexical resource.  A synset is [name, kind]: name is its sense number
\* for the lemma, kind selects its gloss.

NoneSyn == [name |-> 0, kind |-> "none"]

GlossKinds == {"g1", "g2"}

\* synset.definition(): g1 "land", g2 "land", g3 "cash land"; the hypernyms
\* of g1 are defined "slope", "Shore." and "cash".
Definition(syn) ==
    CASE syn.kind = "g1" -> <<"l","a","n","d">>
      [] syn.kind = "g2" -> <<"l","a","n","d">>
      [] syn.kind = "g3" -> <<"c","a","s","h"," ","l","a","n","d">>
      [] syn.kind = "h1" -> <<"s","l","o","p","e">>
      [] syn.kind = "h2" -> <<"S","h","o","r","e",".">>
      [] syn.kind = "h3" -> <<"c","a","s","h">>
      [] OTHER -> <<>>

\* synset.examples(): g2 has the example "Cash!", g3 has "Cash!" and
\* "land cash".
Examples(syn) ==
    CASE syn.kind = "g2" -> << <<"C","a","s","h","!">> >>
      [] syn.kind = "g3" -> << <<"C","a","s","h","!">>,
                               <<"l","a","n","d"," ","c","a","s","h">> >>
      [] OTHER -> <<>>

\* synset.hypernyms(): g1 has three.
Hypernyms(syn) ==
    CASE syn.kind = "g1" -> << [name |-> 1, kind |-> "h1"],
                               [name |-> 1, kind |-> "h2"],
                               [name |-> 1, kind |-> "h3"] >>
      [] OTHER -> <<>>

\* The lemma the resource knows: "bank".
KnownLemma == <<"b","a","n","k">>

\* wn.synsets(word)
Synsets(word) == IF word = KnownLemma THEN wn ELSE <<>>

\* The sense lists of at most n senses: sense k is named k.
SenseLists(n) ==
    UNION { { [k \in 1..m |-> [name |-> k, kind |-> f[k]]] :
                f \in [1..m -> GlossKinds] } : m \in 0..n }

-----------------------------------------------------------------------------
\* knowledge_score

\* hypernyms()[:2]
FirstTwo(s) == SubSeq(s, 1, IF Len(s) < 2 THEN Len(s) ELSE 2)

RECURSIVE HypernymText(_)
HypernymText(hyps) ==
    IF hyps = <<>> THEN <<>>
    ELSE <<" ">> \o Definition(hyps[1]) \o HypernymText(Tail(hyps))

\* gloss + " " + " ".join(examples) + " " + definition of each of the first
\* two hypernyms
EnrichedGloss(syn) ==
    Definition(syn) \o <<" ">> \o JoinSpace(Examples(syn))
        \o HypernymText(FirstTwo(Hypernyms(syn)))

\* Mutation of knowledge_score: every sentence token that is a gloss token
\* counts, sum(1 for t in context_tokens if t in gloss_tokens).
KnowledgeScoreMultiset(context_tokens, syn) ==
    LET gloss_tokens == simple_tokenize(EnrichedGloss(syn))
        InGloss(tok) == tok \in Range(gloss_tokens)
    IN  IF gloss_tokens = <<>> THEN 0
        ELSE Len(SelectSeq(context_tokens, InGloss))

\* knowledge_score(context_tokens, synset), lines 462-471
knowledge_score(context_tokens, syn) ==
    LET gloss_tokens == simple_tokenize(EnrichedGloss(syn))
    IN  IF gloss_tokens = <<>> THEN 0
        ELSE Cardinality(Range(context_tokens) \cap Range(gloss_tokens))

-----------------------------------------------------------------------------
\* hybrid_predict, lines 577-582: knowledge scores and the top-K subset.

RECURSIVE MaxOf(_)
MaxOf(s) ==
    IF Len(s) = 1 THEN s[1]
    ELSE LET m == MaxOf(Tail(s)) IN IF s[1] >= m THEN s[1] ELSE m

\* sorted(..., reverse=True) is a stable sort: insert index i into s, a
\* sequence of smaller indices already in descending key order, behind every
\* index whose key is greater than or equal to the key of i.
RECURSIVE InsertDesc(_, _, _)
InsertDesc(keys, s, i) ==
    IF s = <<>> THEN <<i>>
    ELSE IF keys[s[1]] >= keys[i]
         THEN <<s[1]>> \o InsertDesc(keys, Tail(s), i)
         ELSE <<i>> \o s

RECURSIVE SortedUpTo(_, _)
SortedUpTo(keys, n) ==
    IF n = 0 THEN <<>> ELSE InsertDesc(keys, SortedUpTo(keys, n - 1), n)

\* The indices of keys, sorted by key descending, equal keys in index order.
SortedDesc(keys) == SortedUpTo(keys, Len(keys))

\* kb_scores = [knowledge_score(ctx_tokens, s) for s in candidates]
KbScores(ctx_tokens, cands) ==
    [i \in DOMAIN cands |-> knowledge_score(ctx_tokens, cands[i])]

\* max_kb = max(kb_scores) if kb_scores else 0
MaxKb(kbs) == IF kbs = <<>> THEN 0 ELSE MaxOf(kbs)

\* s reversed.
Reverse(s) == [k \in DOMAIN s |-> s[Len(s) + 1 - k]]

\* The indices of keys, sorted by key ascending, equal keys in index order.
SortedAsc(keys) == SortedDesc([k \in DOMAIN keys |-> 0 - keys[k]])

\* Mutation of SortedIdx: sorted(range(n), key=...)[::-1], an ascending sort
\* reversed, which puts equal keys in reverse index order.
SortedIdxTiesReversed(kbs) == Reverse(SortedAsc(kbs))

\* sorted_idx = sorted(range(len(candidates)), key=lambda i: kb_scores[i],
\*                     reverse=True)
SortedIdx(kbs) == SortedDesc(kbs)

\* Mutation of TopIdx: no [:TOP_K].
TopIdxAll(kbs) == SortedIdx(kbs)

\* top_idx = sorted_idx[:TOP_K]
TopIdx(kbs) ==
    LET sorted_idx == SortedIdx(kbs)
    IN  SubSeq(sorted_idx, 1,
               IF Len(sorted_idx) < TOP_K THEN Len(sorted_idx) ELSE TOP_K)

\* Mutation of KbDen: no 1e-6.
KbDenNoEps(mx) == mx * EpsInv

\* Denominator of kb/(max_kb + 1e-6) once numerator and denominator are
\* multiplied by EpsInv.
KbDen(mx) == mx * EpsInv + 1

\* norm_kb = [kb_scores[i] / (max_kb + 1e-6) for i in top_idx], numerators
\* over KbDen(max_kb).
NormKb(kbs, top) == [k \in DOMAIN top |-> kbs[top[k]] * EpsInv]

-----------------------------------------------------------------------------
\* hybrid_predict, lines 594-601: fusion and ranking.

Min(a, b) == IF a <= b THEN a ELSE b

\* Denominator of a fused score.
HybridDen(mx) == Unit * Unit * KbDen(mx)

\* Mutation of Hybrid: the probability of the other class, 1 - nn, is fused.
HybridOtherClass(nn, kb, mx) ==
    ALPHA * (Unit - nn) * (mx * EpsInv + 1) + (Unit - ALPHA) * Unit * kb

\* Mutation of Hybrid: a Wikipedia component of weight 0.2 is added when the
\* cache directory holds a file.
HybridWithWikipedia(nn, kb, mx) ==
    ALPHA * nn * (mx * EpsInv + 1) + (Unit - ALPHA) * Unit * kb
        + (IF DOMAIN wiki_cache # {} THEN 2 * Unit * (mx * EpsInv + 1) ELSE 0)

\* hybrid = ALPHA * nn + (1 - ALPHA) * kb, numerator over HybridDen(mx):
\* nn is in tenths, kb is a numerator over KbDen(mx).
Hybrid(nn, kb, mx) == ALPHA * nn * KbDen(mx) + (Unit - ALPHA) * Unit * kb

\* combined = []
InitialCombined == <<>>

ZippedByPosition(cands, top, norm, berts, mx) ==
    LET n == Min(Len(norm), Min(Len(berts), Len(top)))
    IN  [k \in 1..n |-> [hybrid |-> Hybrid(berts[k], norm[k], mx),
                         syn    |-> cands[k],
                         kb     |-> norm[k],
                         nn     |-> berts[k]]]

\* for kb, nn, i_idx in zip(norm_kb, bert_scores, top_idx):
\*     combined.append((hybrid, candidates[i_idx], kb, nn))
\* zip stops at the shortest of the three lists.
Zipped(cands, top, norm, berts, mx) ==
    LET n == Min(Len(norm), Min(Len(berts), Len(top)))
    IN  [k \in 1..n |-> [hybrid |-> Hybrid(berts[k], norm[k], mx),
                         syn    |-> cands[top[k]],
                         kb     |-> norm[k],
                         nn     |-> berts[k]]]

\* Mutation of SortCombined: no reverse=True.
SortCombinedAscending(list) ==
    LET perm == SortedAsc([k \in DOMAIN list |-> list[k].hybrid])
    IN  [p \in DOMAIN list |-> list[perm[p]]]

\* Mutation of SortCombined: sort ascending, then reverse the list; equal
\* fused scores end in reverse order.
SortCombinedTiesReversed(list) == Reverse(SortCombinedAscending(list))

\* Mutation of SortCombined: the list is left in the order of top_idx.
SortCombinedNot(list) == list

\* combined.sort(key=lambda x: x[0], reverse=True)
SortCombined(list) ==
    LET perm == SortedDesc([k \in DOMAIN list |-> list[k].hybrid])
    IN  [p \in DOMAIN list |-> list[perm[p]]]

\* The ranked list hybrid_predict returns.
Ranked(cands, top, norm, berts, mx) ==
    SortCombined(InitialCombined \o Zipped(cands, top, norm, berts, mx))

-----------------------------------------------------------------------------
\* Keyword catalogs of wikipedia_knowledge.py.  The characters that are not
\* ASCII are written by their code points ("U+20B9" is one character).

\* PROGRAMMING_KEYWORDS (lines 49-65)
PROGRAMMING_KEYWORDS ==
    <<
      <<"c","o","d","e">>, <<"c","o","d","i","n","g">>,
      <<"p","r","o","g","r","a","m","m","i","n","g">>, <<"p","r","o","g","r","a","m">>,
      <<"s","o","f","t","w","a","r","e">>, <<"d","e","v","e","l","o","p","e","r">>,
      <<"d","e","v","e","l","o","p","m","e","n","t">>, <<"f","u","n","c","t","i","o","n">>,
      <<"m","e","t","h","o","d">>, <<"v","a","r","i","a","b","l","e">>, <<"l","o","o","p">>,
      <<"s","y","n","t","a","x">>, <<"c","o","m","p","i","l","e">>,
      <<"c","o","m","p","i","l","e","r">>, <<"s","c","r","i","p","t">>,
      <<"s","c","r","i","p","t","i","n","g">>, <<"d","e","b","u","g">>,
      <<"d","e","b","u","g","g","i","n","g">>, <<"a","l","g","o","r","i","t","h","m">>,
      <<"d","a","t","a"," ","s","t","r","u","c","t","u","r","e">>, <<"o","b","j","e","c","t">>,
      <<"i","n","s","t","a","n","c","e">>, <<"c","o","n","s","t","r","u","c","t","o","r">>,
      <<"i","n","h","e","r","i","t","a","n","c","e">>,
      <<"p","o","l","y","m","o","r","p","h","i","s","m">>,
      <<"e","n","c","a","p","s","u","l","a","t","i","o","n">>, <<"a","p","i">>,
      <<"l","i","b","r","a","r","y">>, <<"f","r","a","m","e","w","o","r","k">>,
      <<"m","o","d","u","l","e">>, <<"p","a","c","k","a","g","e">>, <<"i","m","p","o","r","t">>,
      <<"d","e","f","i","n","e">>, <<"d","e","f","i","n","e","s">>,
      <<"o","b","j","e","c","t","-","o","r","i","e","n","t","e","d">>, <<"o","o","p">>,
      <<"i","d","e">>, <<"e","d","i","t","o","r">>, <<"t","e","r","m","i","n","a","l">>,
      <<"c","o","m","m","a","n","d"," ","l","i","n","e">>, <<"b","a","c","k","e","n","d">>,
      <<"f","r","o","n","t","e","n","d">>, <<"f","u","l","l","s","t","a","c","k">>,
      <<"w","e","b"," ","d","e","v","e","l","o","p","m","e","n","t">>,
      <<"a","p","p"," ","d","e","v","e","l","o","p","m","e","n","t">>,
      <<"m","a","c","h","i","n","e"," ","l","e","a","r","n","i","n","g">>, <<"m","l">>,
      <<"a","i">>,
      <<"a","r","t","i","f","i","c","i","a","l"," ","i","n","t","e","l","l","i","g","e","n","c","e">>,
      <<"n","e","u","r","a","l"," ","n","e","t","w","o","r","k">>,
      <<"d","a","t","a","b","a","s","e">>, <<"s","q","l">>, <<"q","u","e","r","y">>,
      <<"s","e","r","v","e","r">>, <<"c","l","i","e","n","t">>, <<"h","t","t","p">>,
      <<"r","e","s","t">>, <<"j","s","o","n">>, <<"x","m","l">>, <<"g","i","t">>,
      <<"g","i","t","h","u","b">>, <<"v","e","r","s","i","o","n"," ","c","o","n","t","r","o","l">>,
      <<"r","e","p","o","s","i","t","o","r","y">>, <<"c","o","m","m","i","t">>,
      <<"b","r","a","n","c","h">>, <<"m","e","r","g","e">>,
      <<"e","x","c","e","p","t","i","o","n">>,
      <<"e","r","r","o","r"," ","h","a","n","d","l","i","n","g">>, <<"t","r","y">>,
      <<"c","a","t","c","h">>, <<"t","h","r","o","w">>, <<"r","e","t","u","r","n">>,
      <<"p","r","i","n","t">>, <<"a","r","r","a","y">>, <<"l","i","s","t">>,
      <<"d","i","c","t","i","o","n","a","r","y">>, <<"t","u","p","l","e">>, <<"s","e","t">>,
      <<"s","t","r","i","n","g">>, <<"i","n","t","e","g","e","r">>, <<"f","l","o","a","t">>,
      <<"b","o","o","l","e","a","n">>, <<"i","f"," ","s","t","a","t","e","m","e","n","t">>,
      <<"f","o","r"," ","l","o","o","p">>, <<"w","h","i","l","e"," ","l","o","o","p">>,
      <<"s","w","i","t","c","h">>, <<"c","a","s","e">>, <<"b","r","e","a","k">>,
      <<"s","e","l","e","n","i","u","m">>, <<"p","y","t","e","s","t">>,
      <<"u","n","i","t","t","e","s","t">>, <<"d","j","a","n","g","o">>, <<"f","l","a","s","k">>,
      <<"r","e","a","c","t">>, <<"a","n","g","u","l","a","r">>, <<"v","u","e">>,
      <<"t","e","n","s","o","r","f","l","o","w">>, <<"p","y","t","o","r","c","h">>,
      <<"p","a","n","d","a","s">>, <<"n","u","m","p","y">>, <<"s","c","i","p","y">>,
      <<"m","a","t","p","l","o","t","l","i","b">>
    >>

\* TECH_COMPANY_KEYWORDS (lines 68-75)
TECH_COMPANY_KEYWORDS ==
    <<
      <<"l","a","u","n","c","h","e","d">>, <<"i","p","h","o","n","e">>, <<"i","p","a","d">>,
      <<"m","a","c","b","o","o","k">>, <<"a","i","r","p","o","d","s">>,
      <<"a","p","p","l","e"," ","w","a","t","c","h">>, <<"g","o","o","g","l","e">>,
      <<"m","i","c","r","o","s","o","f","t">>, <<"a","m","a","z","o","n"," ","p","r","i","m","e">>,
      <<"f","a","c","e","b","o","o","k">>, <<"m","e","t","a">>, <<"t","w","i","t","t","e","r">>,
      <<"s","a","m","s","u","n","g">>, <<"t","e","s","l","a">>, <<"s","p","a","c","e","x">>,
      <<"n","v","i","d","i","a">>, <<"i","n","t","e","l">>, <<"a","m","d">>,
      <<"a","n","d","r","o","i","d">>, <<"i","o","s">>, <<"w","i","n","d","o","w","s">>,
      <<"m","a","c","o","s">>, <<"c","h","r","o","m","e","b","o","o","k">>,
      <<"p","i","x","e","l">>, <<"s","i","l","i","c","o","n"," ","v","a","l","l","e","y">>,
      <<"t","e","c","h"," ","g","i","a","n","t">>, <<"b","i","g"," ","t","e","c","h">>,
      <<"t","r","i","l","l","i","o","n"," ","d","o","l","l","a","r">>,
      <<"t","i","m"," ","c","o","o","k">>, <<"e","l","o","n"," ","m","u","s","k">>,
      <<"m","a","r","k"," ","z","u","c","k","e","r","b","e","r","g">>,
      <<"s","u","n","d","a","r"," ","p","i","c","h","a","i">>,
      <<"s","a","t","y","a"," ","n","a","d","e","l","l","a">>
    >>

\* BIOLOGY_KEYWORDS (lines 78-82)
BIOLOGY_KEYWORDS ==
    <<
      <<"a","n","i","m","a","l">>, <<"s","p","e","c","i","e","s">>,
      <<"h","a","b","i","t","a","t">>, <<"w","i","l","d","l","i","f","e">>, <<"z","o","o">>,
      <<"n","a","t","u","r","e">>, <<"e","c","o","s","y","s","t","e","m">>,
      <<"r","e","p","t","i","l","e">>, <<"m","a","m","m","a","l">>, <<"b","i","r","d">>,
      <<"i","n","s","e","c","t">>, <<"s","n","a","k","e">>, <<"p","r","e","d","a","t","o","r">>,
      <<"p","r","e","y">>, <<"f","o","r","e","s","t">>, <<"j","u","n","g","l","e">>,
      <<"w","i","l","d">>, <<"b","i","t","e">>, <<"v","e","n","o","m">>,
      <<"s","c","a","l","e","s">>, <<"t","a","i","l">>, <<"b","u","r","r","o","w">>
    >>

\* FINANCE_KEYWORDS (lines 85-89)
FINANCE_KEYWORDS ==
    <<
      <<"m","o","n","e","y">>, <<"d","e","p","o","s","i","t">>,
      <<"w","i","t","h","d","r","a","w">>, <<"s","a","v","i","n","g","s">>,
      <<"a","c","c","o","u","n","t">>, <<"l","o","a","n">>, <<"i","n","t","e","r","e","s","t">>,
      <<"m","o","r","t","g","a","g","e">>, <<"c","r","e","d","i","t">>, <<"d","e","b","i","t">>,
      <<"t","r","a","n","s","a","c","t","i","o","n">>, <<"b","a","l","a","n","c","e">>,
      <<"a","t","m">>, <<"b","a","n","k"," ","a","c","c","o","u","n","t">>,
      <<"f","i","n","a","n","c","i","a","l">>, <<"i","n","v","e","s","t","m","e","n","t">>,
      <<"s","t","o","c","k","s">>, <<"b","o","n","d","s">>, <<"p","o","r","t","f","o","l","i","o">>
    >>

\* FOOD_KEYWORDS (lines 92-100)
FOOD_KEYWORDS ==
    <<
      <<"a","t","e">>, <<"e","a","t">>, <<"e","a","t","i","n","g">>, <<"f","o","o","d">>,
      <<"f","r","u","i","t">>, <<"v","e","g","e","t","a","b","l","e">>,
      <<"d","e","l","i","c","i","o","u","s">>, <<"t","a","s","t","y">>, <<"c","o","o","k">>,
      <<"c","o","o","k","i","n","g">>, <<"r","e","c","i","p","e">>, <<"m","e","a","l">>,
      <<"b","r","e","a","k","f","a","s","t">>, <<"l","u","n","c","h">>,
      <<"d","i","n","n","e","r">>, <<"s","n","a","c","k">>, <<"h","u","n","g","r","y">>,
      <<"b","i","t","e">>, <<"c","h","e","w">>, <<"s","w","a","l","l","o","w">>,
      <<"t","a","s","t","e">>, <<"f","l","a","v","o","r">>, <<"s","w","e","e","t">>,
      <<"s","o","u","r">>, <<"r","i","p","e">>, <<"f","r","e","s","h">>,
      <<"o","r","g","a","n","i","c">>, <<"h","e","a","l","t","h","y">>,
      <<"n","u","t","r","i","t","i","o","u","s">>, <<"d","i","e","t">>, <<"j","u","i","c","e">>,
      <<"p","i","e">>, <<"s","a","l","a","d">>, <<"d","e","s","s","e","r","t">>,
      <<"b","a","k","e">>, <<"b","a","k","i","n","g">>, <<"k","i","t","c","h","e","n">>,
      <<"p","l","a","t","e">>, <<"b","o","w","l">>, <<"o","r","c","h","a","r","d">>,
      <<"f","a","r","m">>, <<"h","a","r","v","e","s","t">>, <<"g","r","o","w">>,
      <<"s","e","e","d">>, <<"s","k","i","n">>, <<"p","e","e","l">>, <<"s","l","i","c","e">>,
      <<"c","h","o","p">>, <<"b","l","e","n","d">>, <<"s","m","o","o","t","h","i","e">>
    >>

\* ENTERTAINMENT_KEYWORDS (lines 103-112)
ENTERTAINMENT_KEYWORDS ==
    <<
      <<"t","v">>, <<"t","e","l","e","v","i","s","i","o","n">>, <<"m","o","v","i","e">>,
      <<"f","i","l","m">>, <<"s","h","o","w">>, <<"s","e","r","i","e","s">>,
      <<"e","p","i","s","o","d","e">>, <<"c","h","a","n","n","e","l">>,
      <<"n","e","t","f","l","i","x">>, <<"y","o","u","t","u","b","e">>,
      <<"s","t","r","e","a","m">>, <<"s","t","r","e","a","m","i","n","g">>,
      <<"v","i","d","e","o">>, <<"c","i","n","e","m","a">>, <<"t","h","e","a","t","e","r">>,
      <<"b","r","o","a","d","c","a","s","t">>, <<"p","r","o","g","r","a","m","m","e">>,
      <<"p","r","o","g","r","a","m">>, <<"d","o","c","u","m","e","n","t","a","r","y">>,
      <<"n","e","w","s">>, <<"s","p","o","r","t","s">>, <<"v","i","e","w","i","n","g">>,
      <<"v","i","e","w","e","r">>, <<"a","u","d","i","e","n","c","e">>,
      <<"s","c","r","e","e","n">>, <<"r","e","m","o","t","e">>, <<"c","o","u","c","h">>,
      <<"s","o","f","a">>, <<"n","i","g","h","t">>, <<"e","v","e","n","i","n","g">>,
      <<"w","e","e","k","e","n","d">>, <<"b","i","n","g","e">>,
      <<"m","a","r","a","t","h","o","n">>, <<"p","r","e","m","i","e","r","e">>,
      <<"s","e","a","s","o","n">>, <<"a","c","t","o","r">>, <<"a","c","t","r","e","s","s">>,
      <<"d","i","r","e","c","t","o","r">>, <<"s","t","a","r","r","i","n","g">>,
      <<"c","a","s","t">>, <<"s","c","e","n","e">>, <<"p","l","o","t">>,
      <<"c","o","m","e","d","y">>, <<"d","r","a","m","a">>, <<"t","h","r","i","l","l","e","r">>,
      <<"h","o","r","r","o","r">>, <<"a","c","t","i","o","n">>, <<"r","o","m","a","n","c","e">>,
      <<"c","a","r","t","o","o","n">>, <<"a","n","i","m","e">>, <<"s","i","t","c","o","m">>,
      <<"r","e","a","l","i","t","y">>, <<"g","a","m","e"," ","s","h","o","w">>,
      <<"t","a","l","k"," ","s","h","o","w">>, <<"l","a","t","e"," ","n","i","g","h","t">>
    >>

\* TIMEPIECE_KEYWORDS (lines 115-120)
TIMEPIECE_KEYWORDS ==
    <<
      <<"w","r","i","s","t">>, <<"w","r","i","s","t","w","a","t","c","h">>,
      <<"c","l","o","c","k">>, <<"t","i","m","e">>, <<"h","o","u","r">>,
      <<"m","i","n","u","t","e">>, <<"s","e","c","o","n","d">>, <<"d","i","g","i","t","a","l">>,
      <<"a","n","a","l","o","g">>, <<"s","t","r","a","p">>, <<"b","a","n","d">>,
      <<"d","i","a","l">>, <<"f","a","c","e">>, <<"h","a","n","d","s">>,
      <<"w","e","a","r","i","n","g">>, <<"w","o","r","e">>, <<"t","i","m","e","r">>,
      <<"s","t","o","p","w","a","t","c","h">>, <<"a","l","a","r","m">>, <<"b","e","z","e","l">>,
      <<"l","u","x","u","r","y">>, <<"r","o","l","e","x">>, <<"c","a","s","i","o">>,
      <<"s","e","i","k","o">>, <<"o","m","e","g","a">>, <<"j","e","w","e","l","r","y">>,
      <<"a","c","c","e","s","s","o","r","y">>
    >>

\* OBSERVATION_KEYWORDS (lines 123-132)
OBSERVATION_KEYWORDS ==
    <<
      <<"g","u","a","r","d">>, <<"s","e","c","u","r","i","t","y">>,
      <<"m","o","n","i","t","o","r">>, <<"m","o","n","i","t","o","r","i","n","g">>,
      <<"s","u","r","v","e","i","l","l","a","n","c","e">>, <<"p","a","t","r","o","l">>,
      <<"b","u","i","l","d","i","n","g">>, <<"h","o","u","s","e">>,
      <<"p","r","o","p","e","r","t","y">>, <<"p","r","e","m","i","s","e","s">>,
      <<"d","o","o","r">>, <<"e","n","t","r","a","n","c","e">>, <<"g","a","t","e">>,
      <<"p","r","o","t","e","c","t">>, <<"p","r","o","t","e","c","t","i","o","n">>,
      <<"k","e","e","p"," ","a","n"," ","e","y","e">>, <<"l","o","o","k","o","u","t">>,
      <<"a","l","e","r","t">>, <<"c","a","r","e","f","u","l">>, <<"o","b","s","e","r","v","e">>,
      <<"o","b","s","e","r","v","i","n","g">>, <<"o","b","s","e","r","v","a","t","i","o","n">>,
      <<"s","u","p","e","r","v","i","s","e">>, <<"s","u","p","e","r","v","i","s","i","o","n">>,
      <<"o","v","e","r","s","e","e">>, <<"i","n","s","p","e","c","t">>, <<"c","h","e","c","k">>,
      <<"s","u","r","v","e","y">>, <<"s","c","o","u","t">>, <<"s","p","y">>,
      <<"c","h","i","l","d">>, <<"c","h","i","l","d","r","e","n">>, <<"k","i","d","s">>,
      <<"b","a","b","y">>, <<"t","o","d","d","l","e","r">>, <<"b","a","b","y","s","i","t">>,
      <<"b","a","b","y","s","i","t","t","i","n","g">>, <<"p","e","t">>, <<"d","o","g">>,
      <<"c","a","t">>, <<"p","r","i","s","o","n","e","r">>, <<"s","u","s","p","e","c","t">>,
      <<"c","r","i","m","i","n","a","l">>, <<"n","i","g","h","t"," ","s","h","i","f","t">>,
      <<"d","u","t","y">>, <<"p","o","s","t">>, <<"s","t","a","t","i","o","n">>,
      <<"s","e","n","t","r","y">>, <<"v","i","g","i","l","a","n","t">>
    >>

\* FITNESS_KEYWORDS (lines 135-143)
FITNESS_KEYWORDS ==
    <<
      <<"m","o","r","n","i","n","g">>, <<"j","o","g">>, <<"j","o","g","g","i","n","g">>,
      <<"e","x","e","r","c","i","s","e">>, <<"w","o","r","k","o","u","t">>,
      <<"m","a","r","a","t","h","o","n">>, <<"s","p","r","i","n","t">>, <<"g","y","m">>,
      <<"f","i","t","n","e","s","s">>, <<"a","t","h","l","e","t","i","c">>,
      <<"a","t","h","l","e","t","e">>, <<"t","r","a","i","n","i","n","g">>,
      <<"c","a","r","d","i","o">>, <<"a","e","r","o","b","i","c">>, <<"m","i","l","e">>,
      <<"k","i","l","o","m","e","t","e","r">>, <<"d","i","s","t","a","n","c","e">>,
      <<"r","a","c","e">>, <<"r","a","c","i","n","g">>, <<"t","r","a","c","k">>,
      <<"f","i","e","l","d">>, <<"r","u","n","n","i","n","g"," ","s","h","o","e","s">>,
      <<"s","n","e","a","k","e","r","s">>, <<"s","t","r","e","t","c","h","i","n","g">>,
      <<"w","a","r","m"," ","u","p">>, <<"c","o","o","l"," ","d","o","w","n">>,
      <<"h","e","a","l","t","h","y">>, <<"h","e","a","l","t","h">>, <<"s","w","e","a","t">>,
      <<"s","t","a","m","i","n","a">>, <<"e","n","d","u","r","a","n","c","e">>,
      <<"p","a","c","e">>, <<"s","p","e","e","d">>, <<"t","r","e","a","d","m","i","l","l">>,
      <<"o","u","t","d","o","o","r">>, <<"p","a","r","k">>, <<"t","r","a","i","l">>,
      <<"r","o","u","t","e">>, <<"l","a","p">>, <<"f","i","n","i","s","h"," ","l","i","n","e">>,
      <<"g","o","e","s"," ","f","o","r">>, <<"w","e","n","t"," ","f","o","r">>,
      <<"t","a","k","e"," ","a">>, <<"d","a","i","l","y">>, <<"r","o","u","t","i","n","e">>,
      <<"r","e","g","u","l","a","r","l","y">>
    >>

\* BUSINESS_KEYWORDS (lines 146-154)
BUSINESS_KEYWORDS ==
    <<
      <<"s","u","c","c","e","s","s","f","u","l","l","y">>, <<"m","a","n","a","g","e","r">>,
      <<"m","a","n","a","g","i","n","g">>, <<"m","a","n","a","g","e","m","e","n","t">>,
      <<"c","e","o">>, <<"d","i","r","e","c","t","o","r">>, <<"l","e","d">>, <<"l","e","a","d">>,
      <<"l","e","a","d","i","n","g">>, <<"f","o","u","n","d","e","r">>,
      <<"f","o","u","n","d","e","d">>, <<"o","w","n","e","r">>,
      <<"o","w","n","e","r","s","h","i","p">>, <<"o","r","g","a","n","i","z","a","t","i","o","n">>,
      <<"o","r","g","a","n","i","s","a","t","i","o","n">>,
      <<"c","o","r","p","o","r","a","t","i","o","n">>, <<"e","n","t","e","r","p","r","i","s","e">>,
      <<"f","i","r","m">>, <<"b","u","s","i","n","e","s","s">>, <<"s","t","a","r","t","u","p">>,
      <<"e","m","p","l","o","y","e","e">>, <<"s","t","a","f","f">>, <<"t","e","a","m">>,
      <<"d","e","p","a","r","t","m","e","n","t">>, <<"p","r","o","f","i","t">>,
      <<"r","e","v","e","n","u","e">>, <<"g","r","o","w","t","h">>, <<"e","x","p","a","n","d">>,
      <<"e","x","p","a","n","s","i","o","n">>, <<"s","t","r","a","t","e","g","y">>,
      <<"b","o","a","r","d">>, <<"e","x","e","c","u","t","i","v","e">>,
      <<"o","p","e","r","a","t","i","o","n","s">>,
      <<"a","d","m","i","n","i","s","t","e","r","e","d">>, <<"o","v","e","r","s","a","w">>,
      <<"h","e","a","d","e","d">>, <<"s","u","p","e","r","v","i","s","e","d">>,
      <<"c","o","n","t","r","o","l","l","e","d">>, <<"g","o","v","e","r","n","e","d">>,
      <<"s","t","e","e","r","e","d">>
    >>

\* EMOTION_KEYWORDS (lines 157-164)
EMOTION_KEYWORDS ==
    <<
      <<"t","e","a","r","s">>, <<"t","e","a","r">>, <<"c","r","y","i","n","g">>, <<"c","r","y">>,
      <<"s","o","b">>, <<"s","o","b","b","i","n","g">>, <<"w","e","e","p">>,
      <<"w","e","e","p","i","n","g">>, <<"c","h","e","e","k">>, <<"c","h","e","e","k","s">>,
      <<"e","m","o","t","i","o","n">>, <<"e","m","o","t","i","o","n","a","l">>, <<"s","a","d">>,
      <<"s","a","d","n","e","s","s">>, <<"h","a","p","p","y">>,
      <<"h","a","p","p","i","n","e","s","s">>, <<"j","o","y">>, <<"g","r","i","e","f">>,
      <<"s","o","r","r","o","w">>, <<"p","a","i","n">>, <<"h","u","r","t">>,
      <<"h","e","a","r","t","b","r","e","a","k">>, <<"h","e","a","r","t","b","r","o","k","e","n">>,
      <<"m","o","v","e","d">>, <<"t","o","u","c","h","e","d">>,
      <<"d","o","w","n"," ","h","e","r">>, <<"d","o","w","n"," ","h","i","s">>,
      <<"d","o","w","n"," ","m","y">>, <<"d","o","w","n"," ","t","h","e">>,
      <<"b","e","g","a","n"," ","t","o">>, <<"s","t","a","r","t","e","d"," ","t","o">>,
      <<"f","l","o","w">>, <<"f","l","o","w","i","n","g">>, <<"d","r","i","p">>,
      <<"d","r","i","p","p","i","n","g">>, <<"t","r","i","c","k","l","e">>
    >>

\* COMPUTER_KEYWORDS (lines 167-174)
COMPUTER_KEYWORDS ==
    <<
      <<"u","p","l","o","a","d">>, <<"d","o","w","n","l","o","a","d">>,
      <<"d","o","c","u","m","e","n","t">>, <<"f","o","l","d","e","r">>,
      <<"d","i","r","e","c","t","o","r","y">>, <<"s","a","v","e">>, <<"o","p","e","n">>,
      <<"c","l","i","c","k">>, <<"d","r","a","g">>, <<"d","r","o","p">>,
      <<"a","t","t","a","c","h">>, <<"a","t","t","a","c","h","m","e","n","t">>,
      <<"e","m","a","i","l">>, <<"s","e","n","d">>, <<"c","o","m","p","u","t","e","r">>,
      <<"l","a","p","t","o","p">>, <<"d","e","s","k","t","o","p">>,
      <<"s","t","o","r","a","g","e">>, <<"d","i","s","k">>, <<"d","r","i","v","e">>,
      <<"u","s","b">>, <<"p","d","f">>, <<"w","o","r","d">>, <<"e","x","c","e","l">>,
      <<"i","m","a","g","e">>, <<"p","h","o","t","o">>, <<"v","i","d","e","o">>,
      <<"a","u","d","i","o">>, <<"m","p","3">>, <<"m","p","4">>, <<"z","i","p">>,
      <<"c","o","m","p","r","e","s","s">>, <<"e","x","t","r","a","c","t">>,
      <<"r","e","n","a","m","e">>, <<"d","e","l","e","t","e">>, <<"c","o","p","y">>,
      <<"p","a","s","t","e">>, <<"s","h","a","r","e">>, <<"t","r","a","n","s","f","e","r">>,
      <<"s","u","b","m","i","t">>, <<"f","o","r","m","a","t">>,
      <<"e","x","t","e","n","s","i","o","n">>
    >>

\* LEGAL_KEYWORDS (lines 177-185)
LEGAL_KEYWORDS ==
    <<
      <<"l","a","w","y","e","r">>, <<"a","t","t","o","r","n","e","y">>, <<"c","o","u","r","t">>,
      <<"j","u","d","g","e">>, <<"t","r","i","a","l">>, <<"c","a","s","e">>,
      <<"l","a","w","s","u","i","t">>, <<"l","e","g","a","l">>, <<"l","a","w">>,
      <<"f","i","l","e","d">>, <<"f","i","l","i","n","g">>, <<"p","e","t","i","t","i","o","n">>,
      <<"m","o","t","i","o","n">>, <<"h","e","a","r","i","n","g">>,
      <<"p","l","a","i","n","t","i","f","f">>, <<"d","e","f","e","n","d","a","n","t">>,
      <<"p","r","o","s","e","c","u","t","i","o","n">>, <<"d","e","f","e","n","s","e">>,
      <<"v","e","r","d","i","c","t">>, <<"j","u","d","g","m","e","n","t">>,
      <<"a","p","p","e","a","l">>, <<"t","e","s","t","i","m","o","n","y">>,
      <<"w","i","t","n","e","s","s">>, <<"e","v","i","d","e","n","c","e">>,
      <<"a","f","f","i","d","a","v","i","t">>, <<"s","u","b","p","o","e","n","a">>,
      <<"l","i","t","i","g","a","t","i","o","n">>, <<"s","e","t","t","l","e","m","e","n","t">>,
      <<"d","a","m","a","g","e","s">>, <<"c","l","a","i","m">>,
      <<"c","o","m","p","l","a","i","n","t">>, <<"i","n","j","u","n","c","t","i","o","n">>,
      <<"m","a","g","i","s","t","r","a","t","e">>, <<"b","a","r","r","i","s","t","e","r">>,
      <<"s","o","l","i","c","i","t","o","r">>, <<"p","a","r","a","l","e","g","a","l">>,
      <<"n","o","t","a","r","y">>, <<"o","a","t","h">>, <<"p","o","l","i","c","e">>,
      <<"t","h","i","e","f">>, <<"a","r","r","e","s","t">>, <<"a","r","r","e","s","t","e","d">>,
      <<"c","r","i","m","e">>, <<"c","r","i","m","i","n","a","l">>,
      <<"a","c","c","u","s","e","d">>, <<"s","u","s","p","e","c","t">>
    >>

\* TOOLS_KEYWORDS (lines 188-195)
TOOLS_KEYWORDS ==
    <<
      <<"w","o","o","d">>, <<"s","m","o","o","t","h">>, <<"s","m","o","o","t","h","e","n">>,
      <<"s","m","o","o","t","h","e","n","e","d">>, <<"g","r","i","n","d">>,
      <<"g","r","i","n","d","i","n","g">>, <<"s","a","n","d">>, <<"s","a","n","d","i","n","g">>,
      <<"p","o","l","i","s","h">>, <<"p","o","l","i","s","h","i","n","g">>,
      <<"s","h","a","p","e">>, <<"s","h","a","p","i","n","g">>, <<"s","h","a","r","p","e","n">>,
      <<"w","o","r","k","s","h","o","p">>, <<"w","o","r","k","b","e","n","c","h">>,
      <<"t","o","o","l">>, <<"t","o","o","l","s">>, <<"h","a","n","d"," ","t","o","o","l">>,
      <<"r","a","s","p">>, <<"c","h","i","s","e","l">>, <<"c","a","r","p","e","n","t","e","r">>,
      <<"c","a","r","p","e","n","t","r","y">>, <<"m","e","t","a","l","w","o","r","k">>,
      <<"b","l","a","c","k","s","m","i","t","h">>, <<"f","o","r","g","e">>,
      <<"c","r","a","f","t">>, <<"e","d","g","e">>, <<"e","d","g","e","s">>,
      <<"r","o","u","g","h">>, <<"s","u","r","f","a","c","e">>,
      <<"m","a","t","e","r","i","a","l">>, <<"i","r","o","n">>, <<"s","t","e","e","l">>,
      <<"b","r","a","s","s">>, <<"n","a","i","l">>, <<"s","c","r","e","w">>, <<"b","o","l","t">>
    >>

\* SEASON_KEYWORDS (lines 198-205)
SEASON_KEYWORDS ==
    <<
      <<"f","l","o","w","e","r","s">>, <<"f","l","o","w","e","r">>, <<"b","l","o","o","m">>,
      <<"b","l","o","o","m","i","n","g">>, <<"b","l","o","s","s","o","m">>,
      <<"b","l","o","s","s","o","m","i","n","g">>, <<"s","u","m","m","e","r">>,
      <<"a","u","t","u","m","n">>, <<"f","a","l","l">>, <<"w","i","n","t","e","r">>,
      <<"s","e","a","s","o","n","a","l">>, <<"s","e","a","s","o","n">>,
      <<"w","e","a","t","h","e","r">>, <<"w","a","r","m">>, <<"c","o","l","d">>,
      <<"s","u","n","n","y">>, <<"r","a","i","n","y">>,
      <<"t","e","m","p","e","r","a","t","u","r","e">>, <<"m","o","n","t","h","s">>,
      <<"m","a","r","c","h">>, <<"a","p","r","i","l">>, <<"m","a","y">>, <<"j","u","n","e">>,
      <<"s","e","p","t","e","m","b","e","r">>, <<"o","c","t","o","b","e","r">>,
      <<"g","a","r","d","e","n">>, <<"g","a","r","d","e","n","i","n","g">>,
      <<"p","l","a","n","t","i","n","g">>, <<"s","e","e","d","s">>, <<"n","a","t","u","r","e">>,
      <<"t","r","e","e","s">>, <<"b","i","r","d","s">>,
      <<"b","u","t","t","e","r","f","l","i","e","s">>, <<"a","l","l","e","r","g","i","e","s">>,
      <<"p","o","l","l","e","n">>, <<"y","e","a","r">>
    >>

\* WATER_KEYWORDS (lines 208-214)
WATER_KEYWORDS ==
    <<
      <<"w","a","t","e","r">>, <<"f","l","o","w","s">>, <<"f","l","o","w">>,
      <<"f","l","o","w","i","n","g">>, <<"r","i","v","e","r">>, <<"s","t","r","e","a","m">>,
      <<"c","r","e","e","k">>, <<"l","a","k","e">>, <<"p","o","n","d">>, <<"w","e","l","l">>,
      <<"u","n","d","e","r","g","r","o","u","n","d">>, <<"a","q","u","i","f","e","r">>,
      <<"s","o","u","r","c","e">>, <<"d","r","i","n","k">>, <<"d","r","i","n","k","i","n","g">>,
      <<"f","r","e","s","h">>, <<"m","i","n","e","r","a","l">>, <<"n","a","t","u","r","a","l">>,
      <<"b","u","b","b","l","i","n","g">>, <<"f","o","u","n","t","a","i","n">>,
      <<"h","o","t"," ","s","p","r","i","n","g","s">>, <<"t","h","e","r","m","a","l">>,
      <<"g","e","o","t","h","e","r","m","a","l">>, <<"g","e","y","s","e","r">>,
      <<"b","o","t","t","l","e">>, <<"b","o","t","t","l","e","d">>, <<"p","u","r","e">>,
      <<"c","l","e","a","n">>, <<"c","l","e","a","r">>
    >>

\* MECHANICAL_KEYWORDS (lines 217-223)
MECHANICAL_KEYWORDS ==
    <<
      <<"t","o","y">>, <<"t","o","y","s">>, <<"c","o","i","l">>, <<"b","o","u","n","c","e">>,
      <<"b","o","u","n","c","i","n","g">>, <<"e","l","a","s","t","i","c">>,
      <<"m","e","c","h","a","n","i","s","m">>, <<"m","e","c","h","a","n","i","c","a","l">>,
      <<"d","e","v","i","c","e">>, <<"m","a","t","t","r","e","s","s">>, <<"b","e","d">>,
      <<"s","u","s","p","e","n","s","i","o","n">>,
      <<"s","h","o","c","k"," ","a","b","s","o","r","b","e","r">>, <<"t","e","n","s","i","o","n">>,
      <<"c","o","m","p","r","e","s","s">>, <<"c","o","m","p","r","e","s","s","e","d">>,
      <<"s","t","r","e","t","c","h">>, <<"s","t","r","e","t","c","h","e","d">>,
      <<"f","o","r","c","e">>, <<"p","r","e","s","s","u","r","e">>, <<"p","u","s","h">>,
      <<"p","u","l","l">>, <<"j","u","m","p">>, <<"j","u","m","p","i","n","g">>,
      <<"t","r","a","m","p","o","l","i","n","e">>, <<"p","e","n">>, <<"b","u","t","t","o","n">>,
      <<"l","o","a","d","e","d">>
    >>

\* CONSTRUCTION_KEYWORDS (lines 226-232)
CONSTRUCTION_KEYWORDS ==
    <<
      <<"l","i","f","t","e","d">>, <<"l","i","f","t","i","n","g">>, <<"l","i","f","t">>,
      <<"h","e","a","v","y">>, <<"l","o","a","d">>, <<"l","o","a","d","i","n","g">>,
      <<"c","o","n","t","a","i","n","e","r">>, <<"c","o","n","t","a","i","n","e","r","s">>,
      <<"c","o","n","s","t","r","u","c","t","i","o","n">>, <<"s","i","t","e">>,
      <<"b","u","i","l","d","i","n","g">>, <<"t","o","w","e","r">>, <<"t","a","l","l">>,
      <<"h","e","i","g","h","t">>, <<"e","q","u","i","p","m","e","n","t">>,
      <<"m","a","c","h","i","n","e","r","y">>, <<"o","p","e","r","a","t","o","r">>,
      <<"h","o","i","s","t">>, <<"h","o","o","k">>, <<"c","a","b","l","e">>, <<"w","i","r","e">>,
      <<"c","a","r","g","o">>, <<"s","h","i","p","y","a","r","d">>, <<"p","o","r","t">>,
      <<"d","o","c","k">>, <<"w","a","r","e","h","o","u","s","e">>,
      <<"f","a","c","t","o","r","y">>, <<"m","o","v","e">>, <<"m","o","v","i","n","g">>,
      <<"t","r","a","n","s","p","o","r","t">>, <<"h","a","u","l">>, <<"w","e","i","g","h","t">>,
      <<"t","o","n","s">>, <<"i","n","d","u","s","t","r","i","a","l">>
    >>

\* BIRD_KEYWORDS (lines 235-241)
BIRD_KEYWORDS ==
    <<
      <<"f","l","e","w">>, <<"f","l","y">>, <<"f","l","y","i","n","g">>,
      <<"f","l","i","g","h","t">>, <<"w","i","n","g","s">>, <<"w","i","n","g">>,
      <<"f","e","a","t","h","e","r","s">>, <<"f","e","a","t","h","e","r">>, <<"n","e","s","t">>,
      <<"n","e","s","t","i","n","g">>, <<"e","g","g","s">>, <<"b","e","a","k">>,
      <<"m","i","g","r","a","t","e">>, <<"m","i","g","r","a","t","i","o","n">>,
      <<"m","i","g","r","a","t","o","r","y">>, <<"l","a","k","e">>, <<"p","o","n","d">>,
      <<"w","e","t","l","a","n","d">>, <<"m","a","r","s","h">>, <<"s","w","a","m","p">>,
      <<"h","a","b","i","t","a","t">>, <<"b","i","r","d">>, <<"b","i","r","d","s">>,
      <<"a","v","i","a","n">>, <<"f","l","o","c","k">>, <<"s","o","a","r">>,
      <<"s","o","a","r","i","n","g">>, <<"g","l","i","d","e">>,
      <<"g","r","a","c","e","f","u","l">>, <<"w","i","l","d","l","i","f","e">>,
      <<"n","a","t","u","r","e">>, <<"s","a","n","c","t","u","a","r","y">>,
      <<"e","n","d","a","n","g","e","r","e","d">>, <<"s","p","e","c","i","e","s">>
    >>

\* ELECTRICAL_KEYWORDS (lines 244-249)
ELECTRICAL_KEYWORDS ==
    <<
      <<"p","h","o","n","e">>, <<"b","a","t","t","e","r","y">>,
      <<"b","a","t","t","e","r","i","e","s">>, <<"p","l","u","g">>,
      <<"p","l","u","g","g","e","d">>, <<"c","h","a","r","g","e","r">>,
      <<"c","h","a","r","g","i","n","g">>, <<"p","o","w","e","r">>,
      <<"e","l","e","c","t","r","i","c">>, <<"e","l","e","c","t","r","i","c","a","l">>,
      <<"o","u","t","l","e","t">>, <<"s","o","c","k","e","t">>, <<"u","s","b">>,
      <<"c","a","b","l","e">>, <<"l","a","p","t","o","p">>, <<"d","e","v","i","c","e">>,
      <<"w","i","r","e","l","e","s","s">>, <<"a","d","a","p","t","e","r">>, <<"v","o","l","t">>,
      <<"v","o","l","t","a","g","e">>, <<"a","m","p">>, <<"d","e","a","d">>, <<"l","o","w">>,
      <<"f","u","l","l">>, <<"p","e","r","c","e","n","t","a","g","e">>,
      <<"r","e","c","h","a","r","g","e","a","b","l","e">>, <<"l","i","t","h","i","u","m">>
    >>

\* PAYMENT_KEYWORDS (lines 252-257)
PAYMENT_KEYWORDS ==
    <<
      <<"s","e","r","v","i","c","e">>, <<"f","e","e">>, <<"f","e","e","s">>, <<"c","o","s","t">>,
      <<"p","r","i","c","e">>, <<"p","a","y">>, <<"p","a","y","m","e","n","t">>,
      <<"f","r","e","e">>, <<"n","o"," ","c","h","a","r","g","e">>, <<"e","x","t","r","a">>,
      <<"a","d","d","i","t","i","o","n","a","l">>, <<"b","i","l","l">>,
      <<"i","n","v","o","i","c","e">>, <<"r","e","c","e","i","p","t">>,
      <<"d","i","s","c","o","u","n","t">>, <<"r","a","t","e">>,
      <<"f","l","a","t"," ","r","a","t","e">>, <<"p","e","r"," ","h","o","u","r">>,
      <<"m","o","n","t","h","l","y">>, <<"a","n","n","u","a","l">>,
      <<"s","u","b","s","c","r","i","p","t","i","o","n">>,
      <<"m","e","m","b","e","r","s","h","i","p">>, <<"p","r","e","m","i","u","m">>,
      <<"b","a","s","i","c">>, <<"r","e","f","u","n","d">>
    >>

\* MILITARY_KEYWORDS (lines 260-266)
MILITARY_KEYWORDS ==
    <<
      <<"s","o","l","d","i","e","r","s">>, <<"s","o","l","d","i","e","r">>, <<"a","r","m","y">>,
      <<"t","r","o","o","p","s">>, <<"m","i","l","i","t","a","r","y">>,
      <<"b","a","t","t","l","e">>, <<"w","a","r">>, <<"f","o","r","w","a","r","d">>,
      <<"a","t","t","a","c","k">>, <<"a","t","t","a","c","k","i","n","g">>,
      <<"a","d","v","a","n","c","e">>, <<"a","d","v","a","n","c","i","n","g">>,
      <<"r","u","s","h">>, <<"r","u","s","h","i","n","g">>, <<"e","n","e","m","y">>,
      <<"c","o","m","b","a","t">>, <<"f","i","g","h","t">>, <<"f","i","g","h","t","i","n","g">>,
      <<"b","a","t","t","l","e","f","i","e","l","d">>, <<"f","r","o","n","t"," ","l","i","n","e">>,
      <<"c","a","v","a","l","r","y">>, <<"i","n","f","a","n","t","r","y">>,
      <<"r","e","t","r","e","a","t">>, <<"a","s","s","a","u","l","t">>,
      <<"o","f","f","e","n","s","i","v","e">>, <<"d","e","f","e","n","s","e">>,
      <<"b","e","g","a","n"," ","t","o">>, <<"s","t","a","r","t","e","d"," ","t","o">>,
      <<"o","r","d","e","r","e","d"," ","t","o">>, <<"c","o","m","m","a","n","d","e","d">>
    >>

\* WRITING_KEYWORDS (lines 269-274)
WRITING_KEYWORDS ==
    <<
      <<"w","r","o","t","e">>, <<"w","r","i","t","e">>, <<"w","r","i","t","i","n","g">>,
      <<"w","r","i","t","t","e","n">>, <<"l","e","t","t","e","r">>,
      <<"m","e","s","s","a","g","e">>, <<"m","e","m","o">>, <<"p","a","p","e","r">>,
      <<"p","e","n">>, <<"p","e","n","c","i","l">>, <<"j","o","t">>, <<"j","o","t","t","e","d">>,
      <<"s","c","r","i","b","b","l","e">>, <<"s","c","r","i","b","b","l","e","d">>,
      <<"s","t","i","c","k","y">>, <<"p","o","s","t","-","i","t">>,
      <<"r","e","m","i","n","d","e","r">>, <<"j","o","u","r","n","a","l">>,
      <<"d","i","a","r","y">>, <<"n","o","t","e","b","o","o","k">>, <<"l","e","f","t"," ","a">>,
      <<"l","e","a","v","e"," ","a">>, <<"s","e","n","d"," ","a">>,
      <<"p","a","s","s","e","d"," ","a">>, <<"h","a","n","d","e","d"," ","a">>,
      <<"r","e","a","d"," ","a">>
    >>

\* MUSIC_KEYWORDS (lines 277-283)
MUSIC_KEYWORDS ==
    <<
      <<"m","u","s","i","c","a","l">>, <<"m","u","s","i","c">>, <<"s","o","n","g">>,
      <<"s","o","n","g","s">>, <<"m","e","l","o","d","y">>, <<"t","u","n","e">>,
      <<"s","i","n","g">>, <<"s","i","n","g","i","n","g">>, <<"s","a","n","g">>,
      <<"i","n","s","t","r","u","m","e","n","t">>, <<"p","i","a","n","o">>,
      <<"g","u","i","t","a","r">>, <<"v","i","o","l","i","n">>, <<"f","l","u","t","e">>,
      <<"o","r","c","h","e","s","t","r","a">>, <<"c","h","o","i","r">>,
      <<"h","i","g","h"," ","n","o","t","e">>, <<"l","o","w"," ","n","o","t","e">>,
      <<"f","l","a","t"," ","n","o","t","e">>, <<"s","h","a","r","p"," ","n","o","t","e">>,
      <<"s","c","a","l","e">>, <<"o","c","t","a","v","e">>, <<"s","o","u","n","d">>,
      <<"s","o","u","n","d","s">>, <<"t","o","n","e">>, <<"t","o","n","e","s">>,
      <<"f","r","e","q","u","e","n","c","y">>, <<"h","i","g","h"," ","p","i","t","c","h">>,
      <<"l","o","w"," ","p","i","t","c","h">>
    >>

\* EDUCATION_KEYWORDS (lines 286-291)
EDUCATION_KEYWORDS ==
    <<
      <<"m","a","t","h">>, <<"m","a","t","h","e","m","a","t","i","c","s">>,
      <<"s","c","i","e","n","c","e">>, <<"h","i","s","t","o","r","y">>,
      <<"e","n","g","l","i","s","h">>, <<"p","h","y","s","i","c","s">>,
      <<"c","h","e","m","i","s","t","r","y">>, <<"b","i","o","l","o","g","y">>,
      <<"g","e","o","g","r","a","p","h","y">>, <<"e","c","o","n","o","m","i","c","s">>,
      <<"l","i","t","e","r","a","t","u","r","e">>, <<"s","c","h","o","o","l">>,
      <<"c","o","l","l","e","g","e">>, <<"u","n","i","v","e","r","s","i","t","y">>,
      <<"t","e","a","c","h","e","r">>, <<"p","r","o","f","e","s","s","o","r">>,
      <<"s","t","u","d","e","n","t">>, <<"s","t","u","d","e","n","t","s">>,
      <<"c","l","a","s","s","r","o","o","m">>, <<"l","e","c","t","u","r","e">>,
      <<"l","e","s","s","o","n">>, <<"e","x","a","m">>, <<"t","e","s","t">>,
      <<"h","o","m","e","w","o","r","k">>, <<"a","s","s","i","g","n","m","e","n","t">>,
      <<"g","r","a","d","e">>, <<"g","r","a","d","e","s">>, <<"s","e","m","e","s","t","e","r">>,
      <<"c","o","u","r","s","e">>
    >>

\* CURRENCY_KEYWORDS (lines 294-299)
CURRENCY_KEYWORDS ==
    <<
      <<"U+20B9">>, <<"r","u","p","e","e">>, <<"r","u","p","e","e","s">>,
      <<"d","o","l","l","a","r">>, <<"d","o","l","l","a","r","s">>, <<"$">>, <<"e","u","r","o">>,
      <<"e","u","r","o","s">>, <<"U+20AC">>, <<"p","o","u","n","d">>, <<"p","o","u","n","d","s">>,
      <<"U+00A3">>, <<"y","e","n">>, <<"U+00A5">>, <<"c","a","s","h">>, <<"m","o","n","e","y">>,
      <<"c","u","r","r","e","n","c","y">>, <<"b","a","n","k","n","o","t","e">>,
      <<"b","i","l","l">>, <<"b","i","l","l","s">>, <<"1","0","0">>, <<"5","0","0">>,
      <<"1","0","0","0">>, <<"2","0","0","0">>, <<"5","0">>, <<"2","0">>,
      <<"g","a","v","e"," ","m","e">>, <<"h","a","n","d","e","d"," ","m","e">>,
      <<"p","a","i","d">>, <<"c","h","a","n","g","e">>, <<"w","a","l","l","e","t">>,
      <<"p","o","c","k","e","t">>, <<"p","u","r","s","e">>
    >>

\* INDUSTRIAL_KEYWORDS (lines 302-307)
INDUSTRIAL_KEYWORDS ==
    <<
      <<"f","a","c","t","o","r","y">>, <<"f","a","c","t","o","r","i","e","s">>,
      <<"p","o","w","e","r">>, <<"m","a","n","u","f","a","c","t","u","r","i","n","g">>,
      <<"p","r","o","d","u","c","t","i","o","n">>, <<"a","s","s","e","m","b","l","y">>,
      <<"n","u","c","l","e","a","r">>, <<"t","h","e","r","m","a","l">>,
      <<"e","l","e","c","t","r","i","c","i","t","y">>, <<"g","e","n","e","r","a","t","o","r">>,
      <<"t","u","r","b","i","n","e">>, <<"e","n","e","r","g","y">>,
      <<"i","n","d","u","s","t","r","i","a","l">>, <<"i","n","d","u","s","t","r","y">>,
      <<"p","r","o","c","e","s","s","i","n","g">>, <<"r","e","f","i","n","e","r","y">>,
      <<"c","h","e","m","i","c","a","l">>, <<"s","t","e","e","l">>, <<"c","e","m","e","n","t">>,
      <<"t","e","x","t","i","l","e">>, <<"a","u","t","o","m","o","b","i","l","e">>,
      <<"m","a","c","h","i","n","e","r","y">>, <<"f","a","c","i","l","i","t","y">>,
      <<"f","a","c","i","l","i","t","i","e","s">>
    >>

\* BOTANY_KEYWORDS (lines 310-316)
BOTANY_KEYWORDS ==
    <<
      <<"w","a","t","e","r","e","d">>, <<"w","a","t","e","r">>,
      <<"w","a","t","e","r","i","n","g">>, <<"g","r","o","w">>, <<"g","r","o","w","i","n","g">>,
      <<"g","r","e","w">>, <<"g","r","o","w","t","h">>, <<"f","l","o","w","e","r">>,
      <<"f","l","o","w","e","r","s">>, <<"f","l","o","w","e","r","i","n","g">>,
      <<"l","e","a","f">>, <<"l","e","a","v","e","s">>, <<"r","o","o","t">>,
      <<"r","o","o","t","s">>, <<"s","o","i","l">>, <<"p","o","t">>, <<"p","o","t","t","e","d">>,
      <<"g","a","r","d","e","n">>, <<"g","a","r","d","e","n","i","n","g">>,
      <<"g","r","e","e","n","h","o","u","s","e">>, <<"s","u","n","l","i","g","h","t">>,
      <<"s","e","e","d">>, <<"s","e","e","d","s">>, <<"s","t","e","m">>,
      <<"b","r","a","n","c","h">>, <<"b","r","a","n","c","h","e","s">>, <<"t","r","e","e">>,
      <<"t","r","e","e","s">>, <<"s","h","r","u","b">>, <<"g","r","e","e","n">>,
      <<"v","e","g","e","t","a","t","i","o","n">>,
      <<"p","h","o","t","o","s","y","n","t","h","e","s","i","s">>,
      <<"f","e","r","t","i","l","i","z","e","r">>, <<"i","n","d","o","o","r">>,
      <<"o","u","t","d","o","o","r">>
    >>

\* SPY_KEYWORDS (lines 319-325)
SPY_KEYWORDS ==
    <<
      <<"s","p","y">>, <<"s","p","i","e","s">>, <<"s","p","y","i","n","g">>,
      <<"u","n","d","e","r","c","o","v","e","r">>, <<"s","e","c","r","e","t">>,
      <<"s","e","c","r","e","t","s">>, <<"a","g","e","n","t">>,
      <<"i","n","f","i","l","t","r","a","t","e">>, <<"i","n","f","i","l","t","r","a","t","e","d">>,
      <<"i","n","f","i","l","t","r","a","t","i","o","n">>, <<"m","o","l","e">>,
      <<"d","o","u","b","l","e"," ","a","g","e","n","t">>, <<"i","n","s","i","d","e","r">>,
      <<"i","n","f","o","r","m","a","n","t">>, <<"i","n","f","o","r","m","e","r">>,
      <<"t","r","a","i","t","o","r">>, <<"b","e","t","r","a","y","a","l">>,
      <<"o","r","g","a","n","i","z","a","t","i","o","n">>, <<"g","a","n","g">>,
      <<"c","a","r","t","e","l">>, <<"i","n","t","e","l","l","i","g","e","n","c","e">>,
      <<"c","i","a">>, <<"f","b","i">>, <<"m","i","s","s","i","o","n">>,
      <<"c","o","v","e","r","t">>, <<"o","p","e","r","a","t","i","o","n">>,
      <<"s","u","r","v","e","i","l","l","a","n","c","e">>, <<"p","l","a","n","t","e","d">>
    >>

\* SPORTS_KEYWORDS (lines 328-334)
SPORTS_KEYWORDS ==
    <<
      <<"b","a","l","l">>, <<"b","a","l","l","s">>, <<"p","i","t","c","h","e","d">>,
      <<"t","h","r","o","w">>, <<"t","h","r","o","w","i","n","g">>, <<"t","h","r","e","w">>,
      <<"c","a","t","c","h">>, <<"c","a","t","c","h","i","n","g">>,
      <<"b","a","s","e","b","a","l","l">>, <<"c","r","i","c","k","e","t">>,
      <<"b","o","w","l","i","n","g">>, <<"b","o","w","l","e","d">>, <<"b","a","t","t","e","r">>,
      <<"b","a","t","s","m","a","n">>, <<"w","i","c","k","e","t">>, <<"g","a","m","e">>,
      <<"g","a","m","e","s">>, <<"m","a","t","c","h">>, <<"m","a","t","c","h","e","s">>,
      <<"p","l","a","y","e","r">>, <<"p","l","a","y","e","r","s">>, <<"t","e","a","m">>,
      <<"t","e","a","m","s">>, <<"s","t","a","d","i","u","m">>, <<"f","i","e","l","d">>,
      <<"i","n","n","i","n","g","s">>, <<"s","c","o","r","e">>, <<"r","u","n","s">>,
      <<"h","o","m","e"," ","r","u","n">>, <<"s","t","r","i","k","e">>, <<"o","u","t">>,
      <<"s","p","o","r","t">>, <<"s","p","o","r","t","s">>, <<"a","t","h","l","e","t","i","c">>,
      <<"a","t","h","l","e","t","e">>, <<"c","o","a","c","h">>, <<"p","r","a","c","t","i","c","e">>
    >>

\* SALES_KEYWORDS (lines 337-342)
SALES_KEYWORDS ==
    <<
      <<"s","a","l","e","s">>, <<"i","m","p","r","e","s","s","i","v","e">>,
      <<"p","r","e","s","e","n","t","a","t","i","o","n">>, <<"c","l","i","e","n","t">>,
      <<"c","l","i","e","n","t","s">>, <<"c","u","s","t","o","m","e","r">>,
      <<"c","u","s","t","o","m","e","r","s">>, <<"b","u","s","i","n","e","s","s">>,
      <<"d","e","a","l">>, <<"d","e","a","l","s">>, <<"p","r","o","p","o","s","a","l">>,
      <<"m","a","r","k","e","t","i","n","g">>, <<"a","d","v","e","r","t","i","s","i","n","g">>,
      <<"p","r","o","d","u","c","t">>, <<"c","o","n","v","i","n","c","e">>,
      <<"p","e","r","s","u","a","d","e">>, <<"m","e","e","t","i","n","g">>,
      <<"i","n","v","e","s","t","o","r">>, <<"i","n","v","e","s","t","o","r","s">>,
      <<"s","t","a","r","t","u","p">>, <<"v","e","n","t","u","r","e">>,
      <<"e","l","e","v","a","t","o","r"," ","p","i","t","c","h">>,
      <<"s","h","a","r","k"," ","t","a","n","k">>, <<"f","u","n","d","i","n","g">>,
      <<"i","n","v","e","s","t","m","e","n","t">>, <<"s","e","l","l">>,
      <<"s","e","l","l","i","n","g">>
    >>

\* TERRAIN_KEYWORDS (lines 345-350)
TERRAIN_KEYWORDS ==
    <<
      <<"t","e","n","t">>, <<"t","e","n","t","s">>, <<"f","l","a","t">>,
      <<"g","r","o","u","n","d">>, <<"c","a","m","p","i","n","g">>, <<"c","a","m","p">>,
      <<"c","a","m","p","s","i","t","e">>, <<"s","e","t"," ","u","p">>, <<"s","e","t","u","p">>,
      <<"l","e","v","e","l">>, <<"e","v","e","n">>, <<"u","n","e","v","e","n">>,
      <<"s","l","o","p","e">>, <<"s","l","o","p","e","d">>, <<"g","r","a","s","s">>,
      <<"g","r","a","s","s","y">>, <<"o","u","t","d","o","o","r">>,
      <<"o","u","t","d","o","o","r","s">>, <<"t","e","r","r","a","i","n">>,
      <<"s","u","r","f","a","c","e">>, <<"f","o","o","t","b","a","l","l"," ","p","i","t","c","h">>,
      <<"s","o","c","c","e","r"," ","p","i","t","c","h">>,
      <<"c","r","i","c","k","e","t"," ","p","i","t","c","h">>,
      <<"p","l","a","y","i","n","g"," ","f","i","e","l","d">>
    >>

\* SOCIAL_KEYWORDS (lines 353-358)
SOCIAL_KEYWORDS ==
    <<
      <<"u","p","p","e","r"," ","c","l","a","s","s">>,
      <<"l","o","w","e","r"," ","c","l","a","s","s">>,
      <<"m","i","d","d","l","e"," ","c","l","a","s","s">>,
      <<"w","o","r","k","i","n","g"," ","c","l","a","s","s">>, <<"u","p","p","e","r">>,
      <<"l","o","w","e","r">>, <<"w","e","a","l","t","h","y">>, <<"r","i","c","h">>,
      <<"p","o","o","r">>, <<"p","o","v","e","r","t","y">>, <<"e","l","i","t","e">>,
      <<"a","r","i","s","t","o","c","r","a","t">>, <<"a","r","i","s","t","o","c","r","a","c","y">>,
      <<"n","o","b","l","e">>, <<"n","o","b","i","l","i","t","y">>, <<"r","o","y","a","l">>,
      <<"r","o","y","a","l","t","y">>, <<"c","o","m","m","o","n","e","r">>,
      <<"p","e","a","s","a","n","t">>, <<"b","o","u","r","g","e","o","i","s">>,
      <<"s","t","a","t","u","s">>, <<"h","i","e","r","a","r","c","h","y">>,
      <<"s","o","c","i","e","t","y">>, <<"b","e","l","o","n","g","s"," ","t","o">>,
      <<"b","o","r","n"," ","i","n","t","o">>, <<"p","r","i","v","i","l","e","g","e">>
    >>

\* INSECT_KEYWORDS (lines 361-366)
INSECT_KEYWORDS ==
    <<
      <<"c","r","a","w","l","i","n","g">>, <<"c","r","a","w","l">>,
      <<"c","r","a","w","l","e","d">>, <<"w","a","l","l">>, <<"f","l","o","o","r">>,
      <<"c","e","i","l","i","n","g">>, <<"w","i","n","d","o","w">>, <<"a","n","t">>,
      <<"a","n","t","s">>, <<"s","p","i","d","e","r">>, <<"s","p","i","d","e","r","s">>,
      <<"b","e","e","t","l","e">>, <<"c","o","c","k","r","o","a","c","h">>, <<"f","l","y">>,
      <<"f","l","i","e","s">>, <<"m","o","s","q","u","i","t","o">>,
      <<"b","u","t","t","e","r","f","l","y">>, <<"m","o","t","h">>, <<"i","n","s","e","c","t">>,
      <<"i","n","s","e","c","t","s">>, <<"p","e","s","t">>, <<"p","e","s","t","s">>,
      <<"l","e","g","s">>, <<"w","i","n","g","s">>, <<"a","n","t","e","n","n","a">>,
      <<"b","i","t","e">>, <<"b","i","t","t","e","n">>, <<"s","t","i","n","g">>,
      <<"s","t","u","n","g">>, <<"s","q","u","a","s","h">>
    >>

\* SURVEILLANCE_KEYWORDS (lines 369-373)
SURVEILLANCE_KEYWORDS ==
    <<
      <<"h","i","d","d","e","n">>, <<"m","i","c","r","o","p","h","o","n","e">>,
      <<"w","i","r","e","t","a","p">>, <<"l","i","s","t","e","n","i","n","g">>,
      <<"r","e","c","o","r","d","i","n","g">>, <<"s","e","c","r","e","t","l","y">>,
      <<"p","l","a","n","t","e","d">>, <<"d","e","v","i","c","e">>, <<"s","p","y">>,
      <<"s","p","y","i","n","g">>, <<"s","u","r","v","e","i","l","l","a","n","c","e">>,
      <<"e","a","v","e","s","d","r","o","p">>, <<"t","a","p">>, <<"r","o","o","m">>,
      <<"o","f","f","i","c","e">>, <<"p","h","o","n","e">>,
      <<"c","o","n","v","e","r","s","a","t","i","o","n">>, <<"d","e","t","e","c","t","e","d">>,
      <<"s","w","e","e","p">>, <<"f","o","u","n","d">>
    >>

\* FASHION_KEYWORDS (lines 376-381)
FASHION_KEYWORDS ==
    <<
      <<"f","a","s","h","i","o","n">>, <<"r","u","n","w","a","y">>, <<"r","a","m","p">>,
      <<"p","h","o","t","o","s","h","o","o","t">>, <<"p","h","o","t","o"," ","s","h","o","o","t">>,
      <<"p","h","o","t","o","g","r","a","p","h","e","r">>, <<"p","o","s","e">>,
      <<"p","o","s","i","n","g">>, <<"b","e","a","u","t","i","f","u","l">>,
      <<"g","o","r","g","e","o","u","s">>, <<"s","u","p","e","r","m","o","d","e","l">>,
      <<"c","a","t","w","a","l","k">>, <<"m","a","g","a","z","i","n","e">>,
      <<"v","o","g","u","e">>, <<"d","e","s","i","g","n","e","r">>,
      <<"m","o","d","e","l","i","n","g">>, <<"m","o","d","e","l","l","i","n","g">>,
      <<"a","g","e","n","c","y">>, <<"p","o","r","t","f","o","l","i","o">>,
      <<"c","o","m","m","e","r","c","i","a","l">>,
      <<"a","d","v","e","r","t","i","s","e","m","e","n","t">>, <<"a","d">>,
      <<"c","a","m","p","a","i","g","n">>
    >>

\* PRODUCT_KEYWORDS (lines 384-389)
PRODUCT_KEYWORDS ==
    <<
      <<"c","a","r">>, <<"c","a","r","s">>, <<"v","e","h","i","c","l","e">>,
      <<"v","e","h","i","c","l","e","s">>, <<"a","u","t","o","m","o","b","i","l","e">>,
      <<"b","i","k","e">>, <<"m","o","t","o","r","c","y","c","l","e">>,
      <<"n","e","w"," ","m","o","d","e","l">>, <<"l","a","t","e","s","t">>,
      <<"v","e","r","s","i","o","n">>, <<"y","e","a","r">>, <<"b","r","a","n","d">>,
      <<"m","a","k","e">>, <<"m","a","n","u","f","a","c","t","u","r","e","r">>,
      <<"f","e","a","t","u","r","e","s">>, <<"s","p","e","c","s">>,
      <<"s","p","e","c","i","f","i","c","a","t","i","o","n","s">>, <<"e","n","g","i","n","e">>,
      <<"h","o","r","s","e","p","o","w","e","r">>, <<"m","i","l","e","a","g","e">>,
      <<"r","e","l","e","a","s","e">>, <<"l","a","u","n","c","h","e","d">>,
      <<"i","n","t","r","o","d","u","c","e","d">>, <<"u","p","g","r","a","d","e","d">>,
      <<"i","m","p","r","o","v","e","d">>, <<"d","e","s","i","g","n">>
    >>

\* The scores list of _detect_context_type, in its order: the label of each
\* topic and its keyword list.
Topics ==
    <<
      [label |-> <<"p","r","o","g","r","a","m","m","i","n","g">>, keywords |-> PROGRAMMING_KEYWORDS],
      [label |-> <<"t","e","c","h","_","c","o","m","p","a","n","y">>, keywords |-> TECH_COMPANY_KEYWORDS],
      [label |-> <<"b","i","o","l","o","g","y">>, keywords |-> BIOLOGY_KEYWORDS],
      [label |-> <<"f","i","n","a","n","c","e">>, keywords |-> FINANCE_KEYWORDS],
      [label |-> <<"f","o","o","d">>, keywords |-> FOOD_KEYWORDS],
      [label |-> <<"e","n","t","e","r","t","a","i","n","m","e","n","t">>, keywords |-> ENTERTAINMENT_KEYWORDS],
      [label |-> <<"t","i","m","e","p","i","e","c","e">>, keywords |-> TIMEPIECE_KEYWORDS],
      [label |-> <<"o","b","s","e","r","v","a","t","i","o","n">>, keywords |-> OBSERVATION_KEYWORDS],
      [label |-> <<"f","i","t","n","e","s","s">>, keywords |-> FITNESS_KEYWORDS],
      [label |-> <<"b","u","s","i","n","e","s","s">>, keywords |-> BUSINESS_KEYWORDS],
      [label |-> <<"e","m","o","t","i","o","n">>, keywords |-> EMOTION_KEYWORDS],
      [label |-> <<"c","o","m","p","u","t","e","r">>, keywords |-> COMPUTER_KEYWORDS],
      [label |-> <<"l","e","g","a","l">>, keywords |-> LEGAL_KEYWORDS],
      [label |-> <<"t","o","o","l","s">>, keywords |-> TOOLS_KEYWORDS],
      [label |-> <<"s","e","a","s","o","n">>, keywords |-> SEASON_KEYWORDS],
      [label |-> <<"w","a","t","e","r">>, keywords |-> WATER_KEYWORDS],
      [label |-> <<"m","e","c","h","a","n","i","c","a","l">>, keywords |-> MECHANICAL_KEYWORDS],
      [label |-> <<"c","o","n","s","t","r","u","c","t","i","o","n">>, keywords |-> CONSTRUCTION_KEYWORDS],
      [label |-> <<"b","i","r","d">>, keywords |-> BIRD_KEYWORDS],
      [label |-> <<"e","l","e","c","t","r","i","c","a","l">>, keywords |-> ELECTRICAL_KEYWORDS],
      [label |-> <<"p","a","y","m","e","n","t">>, keywords |-> PAYMENT_KEYWORDS],
      [label |-> <<"m","i","l","i","t","a","r","y">>, keywords |-> MILITARY_KEYWORDS],
      [label |-> <<"w","r","i","t","i","n","g">>, keywords |-> WRITING_KEYWORDS],
      [label |-> <<"m","u","s","i","c">>, keywords |-> MUSIC_KEYWORDS],
      [label |-> <<"c","u","r","r","e","n","c","y">>, keywords |-> CURRENCY_KEYWORDS],
      [label |-> <<"i","n","d","u","s","t","r","i","a","l">>, keywords |-> INDUSTRIAL_KEYWORDS],
      [label |-> <<"b","o","t","a","n","y">>, keywords |-> BOTANY_KEYWORDS],
      [label |-> <<"s","p","y">>, keywords |-> SPY_KEYWORDS],
      [label |-> <<"s","p","o","r","t","s">>, keywords |-> SPORTS_KEYWORDS],
      [label |-> <<"s","a","l","e","s">>, keywords |-> SALES_KEYWORDS],
      [label |-> <<"t","e","r","r","a","i","n">>, keywords |-> TERRAIN_KEYWORDS],
      [label |-> <<"s","o","c","i","a","l">>, keywords |-> SOCIAL_KEYWORDS],
      [label |-> <<"e","d","u","c","a","t","i","o","n">>, keywords |-> EDUCATION_KEYWORDS],
      [label |-> <<"i","n","s","e","c","t">>, keywords |-> INSECT_KEYWORDS],
      [label |-> <<"s","u","r","v","e","i","l","l","a","n","c","e">>, keywords |-> SURVEILLANCE_KEYWORDS],
      [label |-> <<"f","a","s","h","i","o","n">>, keywords |-> FASHION_KEYWORDS],
      [label |-> <<"p","r","o","d","u","c","t">>, keywords |-> PRODUCT_KEYWORDS]
    >>

\* skip_words of find_compound_term (lines 536-542)
skip_words ==
    <<
      <<"a">>, <<"a","l","l">>, <<"a","n">>, <<"a","n","d">>, <<"a","n","y">>, <<"a","r","e">>,
      <<"a","t">>, <<"b","u","t">>, <<"b","y">>, <<"c","a","n">>, <<"c","o","u","l","d">>,
      <<"d","i","d">>, <<"d","o">>, <<"d","o","e","s">>, <<"e","a","c","h">>,
      <<"e","v","e","r","y">>, <<"f","o","r">>, <<"h","a","d">>, <<"h","a","s">>,
      <<"h","a","v","e">>, <<"h","e">>, <<"h","e","r">>, <<"h","i","s">>, <<"i">>, <<"i","s">>,
      <<"i","t">>, <<"m","a","y">>, <<"m","i","g","h","t">>, <<"m","u","s","t">>, <<"m","y">>,
      <<"o","r">>, <<"s","h","e">>, <<"s","h","o","u","l","d">>, <<"s","o","m","e">>,
      <<"t","h","a","t">>, <<"t","h","e">>, <<"t","h","e","s","e">>, <<"t","h","e","y">>,
      <<"t","h","i","s">>, <<"t","h","o","s","e">>, <<"t","o">>, <<"w","a","s">>, <<"w","e">>,
      <<"w","e","r","e">>, <<"w","i","l","l">>, <<"w","i","t","h">>, <<"w","o","u","l","d">>,
      <<"y","o","u">>, <<"y","o","u","r">>
    >>

\* known_compounds of find_compound_term (lines 555-563)
known_compounds ==
    <<
      <<"b","l","o","o","d"," ","b","a","n","k">>, <<"f","o","o","d"," ","b","a","n","k">>,
      <<"r","i","v","e","r"," ","b","a","n","k">>, <<"m","e","m","o","r","y"," ","b","a","n","k">>,
      <<"a","p","p","l","e"," ","t","r","e","e">>, <<"a","p","p","l","e"," ","p","i","e">>,
      <<"a","p","p","l","e"," ","j","u","i","c","e">>, <<"c","e","l","l"," ","p","h","o","n","e">>,
      <<"p","r","i","s","o","n"," ","c","e","l","l">>, <<"b","l","o","o","d"," ","c","e","l","l">>,
      <<"l","i","g","h","t"," ","b","u","l","b">>,
      <<"t","r","a","f","f","i","c"," ","l","i","g","h","t">>,
      <<"f","l","a","s","h"," ","l","i","g","h","t">>, <<"b","o","o","k"," ","s","t","o","r","e">>,
      <<"b","o","o","k"," ","s","h","e","l","f">>, <<"c","o","m","i","c"," ","b","o","o","k">>,
      <<"s","m","a","r","t"," ","w","a","t","c","h">>,
      <<"p","o","c","k","e","t"," ","w","a","t","c","h">>,
      <<"s","t","o","p"," ","w","a","t","c","h">>, <<"w","r","i","s","t"," ","w","a","t","c","h">>,
      <<"n","i","g","h","t"," ","w","a","t","c","h">>
    >>

-----------------------------------------------------------------------------
\* Substrings, and the compound-term detector of app_clean_ui.py.

\* Mutation of IsSubstring: text.startswith(sub)
IsPrefix(sub, text) ==
    Len(sub) <= Len(text) /\ SubSeq(text, 1, Len(sub)) = sub

\* sub in text
IsSubstring(sub, text) ==
    \/ sub = <<>>
    \/ \E i \in 1..(Len(text) - Len(sub) + 1) :
           text[i] = sub[1] /\ SubSeq(text, i, i + Len(sub) - 1) = sub

MinOfSet(S) == CHOOSE x \in S : \A y \in S : x <= y

\* None, for a compound term.
NoCompound == <<>>

\* The characters re's [a-z] matches.
LowerLetterChars == Range(LowerLetters)

IsLowerLetter(c) == c \in LowerLetterChars

\* Mutation of find_compound_term: no test of the allow-list.
FindCompoundTermUngated(word, s) ==
    LET words == Split(Lower(s))
        word_lower == Lower(word)
        exact == {i \in DOMAIN words : words[i] = word_lower}
        partial == {i \in DOMAIN words : IsSubstring(word_lower, words[i])}
        idx == IF exact # {} THEN MinOfSet(exact)
               ELSE IF partial # {} THEN MinOfSet(partial)
               ELSE 0
    IN  IF idx > 1
        THEN LET prev_word == SelectSeq(words[idx - 1], IsLowerLetter)
             IN  IF prev_word \in Range(skip_words) THEN NoCompound
                 ELSE prev_word \o <<" ">> \o word_lower
        ELSE NoCompound

\* Mutation of find_compound_term: "if idx >= 0"; for the first token
\* words[idx - 1] is the last token.
FindCompoundTermWrap(word, s) ==
    LET words == Split(Lower(s))
        word_lower == Lower(word)
        exact == {i \in DOMAIN words : words[i] = word_lower}
        partial == {i \in DOMAIN words : IsSubstring(word_lower, words[i])}
        idx == IF exact # {} THEN MinOfSet(exact)
               ELSE IF partial # {} THEN MinOfSet(partial)
               ELSE 0
    IN  IF idx > 0
        THEN LET before == IF idx > 1 THEN idx - 1 ELSE Len(words)
                 prev_word == SelectSeq(words[before], IsLowerLetter)
                 compound == prev_word \o <<" ">> \o word_lower
             IN  IF prev_word \in Range(skip_words) THEN NoCompound
                 ELSE IF compound \in Range(known_compounds) THEN compound
                 ELSE NoCompound
        ELSE NoCompound

\* find_compound_term(word, sentence): the position of the word is that of
\* the first token equal to it, else of the first token containing it.
find_compound_term(word, s) ==
    LET words == Split(Lower(s))
        word_lower == Lower(word)
        exact == {i \in DOMAIN words : words[i] = word_lower}
        partial == {i \in DOMAIN words : IsSubstring(word_lower, words[i])}
        idx == IF exact # {} THEN MinOfSet(exact)
               ELSE IF partial # {} THEN MinOfSet(partial)
               ELSE 0
    IN  IF idx > 1
        THEN LET prev_word == SelectSeq(words[idx - 1], IsLowerLetter)
                 compound == prev_word \o <<" ">> \o word_lower
             IN  IF prev_word \in Range(skip_words) THEN NoCompound
                 ELSE IF compound \in Range(known_compounds) THEN compound
                 ELSE NoCompound
        ELSE NoCompound

-----------------------------------------------------------------------------
\* The context classifier and the summary cache of wikipedia_knowledge.py.

\* Mutation of KeywordScore: kw in context_lower.split(), a token match.
KeywordScoreTokens(keywords, context_lower) ==
    Cardinality({i \in DOMAIN keywords :
                    keywords[i] \in Range(Split(context_lower))})

\* sum(1 for kw in KEYWORDS if kw in context_lower)
KeywordScore(keywords, context_lower) ==
    Cardinality({i \in DOMAIN keywords :
                    IsSubstring(keywords[i], context_lower)})

\* Mutation of _detect_context_type: the last topic of the highest score.
DetectContextTypeLast(context_lower) ==
    IF context_lower = <<>> THEN <<>>
    ELSE LET scores == [t \in DOMAIN Topics |->
                           KeywordScore(Topics[t].keywords, context_lower)]
             best_score == MaxOf(scores)
             last_best == CHOOSE t \in DOMAIN Topics :
                              /\ scores[t] = best_score
                              /\ \A u \in DOMAIN Topics :
                                     scores[u] = best_score => u <= t
         IN  IF best_score > 0 THEN Topics[last_best].label ELSE <<>>

DetectContextTypeGeography(context_lower) ==
    IF context_lower = <<>> THEN <<>>
    ELSE LET table == << [label |-> <<"g","e","o","g","r","a","p","h","y">>,
                          keywords |-> << <<"r","i","v","e","r">>, <<"i","s","l","a","n","d">> >>] >> \o Topics
             scores == [t \in DOMAIN table |->
                           KeywordScore(table[t].keywords, context_lower)]
             best_score == MaxOf(scores)
             first_best == MinOfSet({t \in DOMAIN table :
                                        scores[t] = best_score})
         IN  IF best_score > 0 THEN table[first_best].label ELSE <<>>

\* _detect_context_type(context_lower): the label of the first topic of the
\* highest score, the empty label when that score is 0.
_detect_context_type(context_lower) ==
    IF context_lower = <<>> THEN <<>>
    ELSE LET scores == [t \in DOMAIN Topics |->
                           KeywordScore(Topics[t].keywords, context_lower)]
             best_score == MaxOf(scores)
             first_best == MinOfSet({t \in DOMAIN Topics :
                                        scores[t] = best_score})
         IN  IF best_score > 0 THEN Topics[first_best].label ELSE <<>>

\* str.strip()
RECURSIVE StripLeft(_)
StripLeft(text) ==
    IF text # <<>> /\ text[1] \in Whitespace THEN StripLeft(Tail(text))
    ELSE text

Strip(text) == Reverse(StripLeft(Reverse(StripLeft(text))))

\* cache_word of get_wikipedia_summary (line 956)
CacheWord(word, cache_key_suffix) ==
    IF cache_key_suffix # <<>>
    THEN Lower(word) \o <<"_">> \o cache_key_suffix
    ELSE word

\* _cache_key: the md5 digest of word.lower().strip() names the cache file;
\* the digest is taken to be one-to-one.
_cache_key(word) == Strip(Lower(word))

\* CONTEXT_SEARCH_MAPPINGS (lines 395-809): the entries of the dict display in
\* the order they are written; each gives a word and, per context, the
\* search terms.
MappingEntries ==
    <<
      [word |-> <<"p","y","t","h","o","n">>,
       mappings |-> <<
          [context |-> <<"p","r","o","g","r","a","m","m","i","n","g">>,
           terms |-> << <<"P","y","t","h","o","n"," ","(","p","r","o","g","r","a","m","m","i","n","g"," ","l","a","n","g","u","a","g","e",")">>,
                      <<"P","y","t","h","o","n"," ","p","r","o","g","r","a","m","m","i","n","g">> >>],
          [context |-> <<"b","i","o","l","o","g","y">>,
           terms |-> << <<"P","y","t","h","o","n"," ","(","g","e","n","u","s",")">>,
                      <<"P","y","t","h","o","n","i","d","a","e"," ","s","n","a","k","e">> >>] >>],
      [word |-> <<"j","a","v","a">>,
       mappings |-> <<
          [context |-> <<"p","r","o","g","r","a","m","m","i","n","g">>,
           terms |-> << <<"J","a","v","a"," ","(","p","r","o","g","r","a","m","m","i","n","g"," ","l","a","n","g","u","a","g","e",")">>,
                      <<"J","a","v","a"," ","s","o","f","t","w","a","r","e"," ","p","l","a","t","f","o","r","m">> >>],
          [context |-> <<"g","e","o","g","r","a","p","h","y">>,
           terms |-> << <<"J","a","v","a">>,
                      <<"J","a","v","a"," ","i","s","l","a","n","d">> >>] >>],
      [word |-> <<"w","a","t","c","h">>,
       mappings |-> <<
          [context |-> <<"e","n","t","e","r","t","a","i","n","m","e","n","t">>,
           terms |-> << <<"T","e","l","e","v","i","s","i","o","n">>,
                      <<"W","a","t","c","h","i","n","g"," ","t","e","l","e","v","i","s","i","o","n">>,
                      <<"V","i","e","w","e","r"," ","(","t","e","l","e","v","i","s","i","o","n",")">> >>],
          [context |-> <<"o","b","s","e","r","v","a","t","i","o","n">>,
           terms |-> << <<"O","b","s","e","r","v","a","t","i","o","n">>,
                      <<"S","u","r","v","e","i","l","l","a","n","c","e">>,
                      <<"S","e","c","u","r","i","t","y"," ","g","u","a","r","d">> >>],
          [context |-> <<"t","i","m","e","p","i","e","c","e">>,
           terms |-> << <<"W","a","t","c","h">>,
                      <<"W","r","i","s","t","w","a","t","c","h">>,
                      <<"T","i","m","e","p","i","e","c","e">> >>] >>],
      [word |-> <<"r","u","n">>,
       mappings |-> <<
          [context |-> <<"f","i","t","n","e","s","s">>,
           terms |-> << <<"R","u","n","n","i","n","g">>,
                      <<"J","o","g","g","i","n","g">>,
                      <<"E","x","e","r","c","i","s","e">> >>],
          [context |-> <<"p","r","o","g","r","a","m","m","i","n","g">>,
           terms |-> << <<"E","x","e","c","u","t","i","o","n"," ","(","c","o","m","p","u","t","i","n","g",")">>,
                      <<"R","u","n"," ","c","o","m","m","a","n","d">>,
                      <<"C","o","m","p","u","t","e","r"," ","p","r","o","g","r","a","m"," ","e","x","e","c","u","t","i","o","n">> >>],
          [context |-> <<"b","u","s","i","n","e","s","s">>,
           terms |-> << <<"M","a","n","a","g","e","m","e","n","t">>,
                      <<"B","u","s","i","n","e","s","s"," ","o","p","e","r","a","t","i","o","n","s">>,
                      <<"C","o","r","p","o","r","a","t","e"," ","g","o","v","e","r","n","a","n","c","e">> >>],
          [context |-> <<"e","m","o","t","i","o","n">>,
           terms |-> << <<"C","r","y","i","n","g">>,
                      <<"T","e","a","r","s">>,
                      <<"W","e","e","p","i","n","g">> >>] >>],
      [word |-> <<"r","a","n">>,
       mappings |-> <<
          [context |-> <<"f","i","t","n","e","s","s">>,
           terms |-> << <<"R","u","n","n","i","n","g">>,
                      <<"J","o","g","g","i","n","g">>,
                      <<"E","x","e","r","c","i","s","e">> >>],
          [context |-> <<"p","r","o","g","r","a","m","m","i","n","g">>,
           terms |-> << <<"E","x","e","c","u","t","i","o","n"," ","(","c","o","m","p","u","t","i","n","g",")">>,
                      <<"R","u","n"," ","c","o","m","m","a","n","d">>,
                      <<"C","o","m","p","u","t","e","r"," ","p","r","o","g","r","a","m"," ","e","x","e","c","u","t","i","o","n">> >>],
          [context |-> <<"b","u","s","i","n","e","s","s">>,
           terms |-> << <<"M","a","n","a","g","e","m","e","n","t">>,
                      <<"B","u","s","i","n","e","s","s"," ","o","p","e","r","a","t","i","o","n","s">>,
                      <<"C","o","r","p","o","r","a","t","e"," ","g","o","v","e","r","n","a","n","c","e">> >>],
          [context |-> <<"e","m","o","t","i","o","n">>,
           terms |-> << <<"C","r","y","i","n","g">>,
                      <<"T","e","a","r","s">>,
                      <<"W","e","e","p","i","n","g">> >>] >>],
      [word |-> <<"c","o","m","p","a","n","y">>,
       mappings |-> <<
          [context |-> <<"b","u","s","i","n","e","s","s">>,
           terms |-> << <<"C","o","m","p","a","n","y">>,
                      <<"B","u","s","i","n","e","s","s"," ","o","r","g","a","n","i","z","a","t","i","o","n">>,
                      <<"C","o","r","p","o","r","a","t","i","o","n">> >>],
          [context |-> <<"t","e","c","h","_","c","o","m","p","a","n","y">>,
           terms |-> << <<"T","e","c","h","n","o","l","o","g","y"," ","c","o","m","p","a","n","y">>,
                      <<"T","e","c","h"," ","c","o","m","p","a","n","y">> >>] >>],
      [word |-> <<"f","i","l","e">>,
       mappings |-> <<
          [context |-> <<"c","o","m","p","u","t","e","r">>,
           terms |-> << <<"C","o","m","p","u","t","e","r"," ","f","i","l","e">>,
                      <<"D","i","g","i","t","a","l"," ","f","i","l","e">>,
                      <<"F","i","l","e"," ","(","c","o","m","p","u","t","i","n","g",")">> >>],
          [context |-> <<"l","e","g","a","l">>,
           terms |-> << <<"L","e","g","a","l"," ","f","i","l","i","n","g">>,
                      <<"C","o","u","r","t"," ","f","i","l","i","n","g">>,
                      <<"F","i","l","e"," ","(","l","e","g","a","l",")">> >>],
          [context |-> <<"t","o","o","l","s">>,
           terms |-> << <<"F","i","l","e"," ","(","t","o","o","l",")">>,
                      <<"H","a","n","d"," ","f","i","l","e">>,
                      <<"M","e","t","a","l","w","o","r","k","i","n","g"," ","f","i","l","e">> >>] >>],
      [word |-> <<"m","o","u","s","e">>,
       mappings |-> <<
          [context |-> <<"c","o","m","p","u","t","e","r">>,
           terms |-> << <<"C","o","m","p","u","t","e","r"," ","m","o","u","s","e">>,
                      <<"M","o","u","s","e"," ","(","c","o","m","p","u","t","i","n","g",")">>,
                      <<"I","n","p","u","t"," ","d","e","v","i","c","e">> >>],
          [context |-> <<"b","i","o","l","o","g","y">>,
           terms |-> << <<"M","o","u","s","e">>,
                      <<"H","o","u","s","e"," ","m","o","u","s","e">>,
                      <<"M","u","s"," ","m","u","s","c","u","l","u","s">> >>] >>],
      [word |-> <<"s","p","r","i","n","g">>,
       mappings |-> <<
          [context |-> <<"s","e","a","s","o","n">>,
           terms |-> << <<"S","p","r","i","n","g"," ","(","s","e","a","s","o","n",")">>,
                      <<"S","p","r","i","n","g","t","i","m","e">>,
                      <<"S","p","r","i","n","g"," ","s","e","a","s","o","n">> >>],
          [context |-> <<"w","a","t","e","r">>,
           terms |-> << <<"S","p","r","i","n","g"," ","(","h","y","d","r","o","l","o","g","y",")">>,
                      <<"N","a","t","u","r","a","l"," ","s","p","r","i","n","g">>,
                      <<"W","a","t","e","r"," ","s","p","r","i","n","g">> >>],
          [context |-> <<"m","e","c","h","a","n","i","c","a","l">>,
           terms |-> << <<"S","p","r","i","n","g"," ","(","d","e","v","i","c","e",")">>,
                      <<"C","o","i","l"," ","s","p","r","i","n","g">>,
                      <<"M","e","c","h","a","n","i","c","a","l"," ","s","p","r","i","n","g">> >>] >>],
      [word |-> <<"c","r","a","n","e">>,
       mappings |-> <<
          [context |-> <<"c","o","n","s","t","r","u","c","t","i","o","n">>,
           terms |-> << <<"C","r","a","n","e"," ","(","m","a","c","h","i","n","e",")">>,
                      <<"C","o","n","s","t","r","u","c","t","i","o","n"," ","c","r","a","n","e">>,
                      <<"T","o","w","e","r"," ","c","r","a","n","e">> >>],
          [context |-> <<"b","i","r","d">>,
           terms |-> << <<"C","r","a","n","e"," ","(","b","i","r","d",")">>,
                      <<"G","r","u","i","d","a","e">>,
                      <<"C","r","a","n","e"," ","b","i","r","d">> >>] >>],
      [word |-> <<"c","h","a","r","g","e">>,
       mappings |-> <<
          [context |-> <<"l","e","g","a","l">>,
           terms |-> << <<"C","r","i","m","i","n","a","l"," ","c","h","a","r","g","e">>,
                      <<"L","e","g","a","l"," ","c","h","a","r","g","e">>,
                      <<"I","n","d","i","c","t","m","e","n","t">> >>],
          [context |-> <<"e","l","e","c","t","r","i","c","a","l">>,
           terms |-> << <<"B","a","t","t","e","r","y"," ","c","h","a","r","g","i","n","g">>,
                      <<"E","l","e","c","t","r","i","c"," ","c","h","a","r","g","e">>,
                      <<"C","h","a","r","g","i","n","g"," ","b","a","t","t","e","r","y">> >>],
          [context |-> <<"p","a","y","m","e","n","t">>,
           terms |-> << <<"F","e","e">>,
                      <<"S","e","r","v","i","c","e"," ","c","h","a","r","g","e">>,
                      <<"P","r","i","c","e">> >>],
          [context |-> <<"m","i","l","i","t","a","r","y">>,
           terms |-> << <<"C","h","a","r","g","e"," ","(","w","a","r","f","a","r","e",")">>,
                      <<"M","i","l","i","t","a","r","y"," ","c","h","a","r","g","e">>,
                      <<"C","a","v","a","l","r","y"," ","c","h","a","r","g","e">> >>] >>],
      [word |-> <<"n","o","t","e">>,
       mappings |-> <<
          [context |-> <<"w","r","i","t","i","n","g">>,
           terms |-> << <<"N","o","t","e"," ","(","t","y","p","o","g","r","a","p","h","y",")">>,
                      <<"W","r","i","t","t","e","n"," ","n","o","t","e">>,
                      <<"M","e","m","o","r","a","n","d","u","m">> >>],
          [context |-> <<"m","u","s","i","c">>,
           terms |-> << <<"M","u","s","i","c","a","l"," ","n","o","t","e">>,
                      <<"N","o","t","e"," ","(","m","u","s","i","c",")">>,
                      <<"P","i","t","c","h"," ","(","m","u","s","i","c",")">> >>],
          [context |-> <<"c","u","r","r","e","n","c","y">>,
           terms |-> << <<"B","a","n","k","n","o","t","e">>,
                      <<"C","u","r","r","e","n","c","y"," ","n","o","t","e">>,
                      <<"P","a","p","e","r"," ","m","o","n","e","y">> >>] >>],
      [word |-> <<"p","l","a","n","t">>,
       mappings |-> <<
          [context |-> <<"i","n","d","u","s","t","r","i","a","l">>,
           terms |-> << <<"P","o","w","e","r"," ","p","l","a","n","t">>,
                      <<"I","n","d","u","s","t","r","i","a","l"," ","p","l","a","n","t">>,
                      <<"F","a","c","t","o","r","y">> >>],
          [context |-> <<"b","o","t","a","n","y">>,
           terms |-> << <<"P","l","a","n","t">>,
                      <<"F","l","o","w","e","r","i","n","g"," ","p","l","a","n","t">>,
                      <<"H","o","u","s","e","p","l","a","n","t">> >>],
          [context |-> <<"s","p","y">>,
           terms |-> << <<"S","l","e","e","p","e","r"," ","a","g","e","n","t">>,
                      <<"U","n","d","e","r","c","o","v","e","r"," ","a","g","e","n","t">>,
                      <<"M","o","l","e"," ","(","e","s","p","i","o","n","a","g","e",")">> >>] >>],
      [word |-> <<"p","i","t","c","h">>,
       mappings |-> <<
          [context |-> <<"s","p","o","r","t","s">>,
           terms |-> << <<"P","i","t","c","h"," ","(","b","a","s","e","b","a","l","l",")">>,
                      <<"P","i","t","c","h","i","n","g"," ","(","b","a","s","e","b","a","l","l",")">>,
                      <<"B","o","w","l","i","n","g"," ","(","c","r","i","c","k","e","t",")">> >>],
          [context |-> <<"s","a","l","e","s">>,
           terms |-> << <<"S","a","l","e","s"," ","p","i","t","c","h">>,
                      <<"E","l","e","v","a","t","o","r"," ","p","i","t","c","h">>,
                      <<"B","u","s","i","n","e","s","s"," ","p","i","t","c","h">> >>],
          [context |-> <<"t","e","r","r","a","i","n">>,
           terms |-> << <<"P","i","t","c","h"," ","(","s","p","o","r","t","s"," ","f","i","e","l","d",")">>,
                      <<"F","o","o","t","b","a","l","l"," ","p","i","t","c","h">>,
                      <<"P","l","a","y","i","n","g"," ","f","i","e","l","d">> >>],
          [context |-> <<"m","u","s","i","c">>,
           terms |-> << <<"P","i","t","c","h"," ","(","m","u","s","i","c",")">>,
                      <<"A","u","d","i","o"," ","f","r","e","q","u","e","n","c","y">>,
                      <<"S","o","u","n","d"," ","p","i","t","c","h">> >>] >>],
      [word |-> <<"c","l","a","s","s">>,
       mappings |-> <<
          [context |-> <<"p","r","o","g","r","a","m","m","i","n","g">>,
           terms |-> << <<"C","l","a","s","s"," ","(","c","o","m","p","u","t","e","r"," ","p","r","o","g","r","a","m","m","i","n","g",")">>,
                      <<"O","b","j","e","c","t","-","o","r","i","e","n","t","e","d"," ","p","r","o","g","r","a","m","m","i","n","g"," ","c","l","a","s","s">> >>],
          [context |-> <<"e","d","u","c","a","t","i","o","n">>,
           terms |-> << <<"C","l","a","s","s"," ","(","e","d","u","c","a","t","i","o","n",")">>,
                      <<"S","c","h","o","o","l"," ","c","l","a","s","s">>,
                      <<"C","l","a","s","s","r","o","o","m">> >>],
          [context |-> <<"s","o","c","i","a","l">>,
           terms |-> << <<"S","o","c","i","a","l"," ","c","l","a","s","s">>,
                      <<"C","l","a","s","s"," ","s","y","s","t","e","m">>,
                      <<"S","o","c","i","a","l"," ","s","t","r","a","t","i","f","i","c","a","t","i","o","n">> >>] >>],
      [word |-> <<"b","u","g">>,
       mappings |-> <<
          [context |-> <<"p","r","o","g","r","a","m","m","i","n","g">>,
           terms |-> << <<"S","o","f","t","w","a","r","e"," ","b","u","g">>,
                      <<"B","u","g"," ","(","s","o","f","t","w","a","r","e",")">>,
                      <<"P","r","o","g","r","a","m","m","i","n","g"," ","e","r","r","o","r">> >>],
          [context |-> <<"i","n","s","e","c","t">>,
           terms |-> << <<"I","n","s","e","c","t">>,
                      <<"B","u","g"," ","(","i","n","s","e","c","t",")">>,
                      <<"T","r","u","e"," ","b","u","g","s">> >>],
          [context |-> <<"s","u","r","v","e","i","l","l","a","n","c","e">>,
           terms |-> << <<"C","o","v","e","r","t"," ","l","i","s","t","e","n","i","n","g"," ","d","e","v","i","c","e">>,
                      <<"W","i","r","e","t","a","p">>,
                      <<"S","u","r","v","e","i","l","l","a","n","c","e"," ","d","e","v","i","c","e">> >>] >>],
      [word |-> <<"m","o","d","e","l">>,
       mappings |-> <<
          [context |-> <<"p","r","o","g","r","a","m","m","i","n","g">>,
           terms |-> << <<"M","a","c","h","i","n","e"," ","l","e","a","r","n","i","n","g"," ","m","o","d","e","l">>,
                      <<"A","I"," ","m","o","d","e","l">>,
                      <<"S","t","a","t","i","s","t","i","c","a","l"," ","m","o","d","e","l">> >>],
          [context |-> <<"f","a","s","h","i","o","n">>,
           terms |-> << <<"M","o","d","e","l"," ","(","p","e","r","s","o","n",")">>,
                      <<"F","a","s","h","i","o","n"," ","m","o","d","e","l">>,
                      <<"S","u","p","e","r","m","o","d","e","l">> >>],
          [context |-> <<"p","r","o","d","u","c","t">>,
           terms |-> << <<"M","o","d","e","l"," ","(","p","r","o","d","u","c","t",")">>,
                      <<"P","r","o","d","u","c","t"," ","m","o","d","e","l">>,
                      <<"V","e","h","i","c","l","e"," ","m","o","d","e","l">> >>] >>],
      [word |-> <<"o","b","j","e","c","t">>,
       mappings |-> <<
          [context |-> <<"p","r","o","g","r","a","m","m","i","n","g">>,
           terms |-> << <<"O","b","j","e","c","t"," ","(","c","o","m","p","u","t","e","r"," ","s","c","i","e","n","c","e",")">>,
                      <<"O","b","j","e","c","t","-","o","r","i","e","n","t","e","d"," ","p","r","o","g","r","a","m","m","i","n","g">> >>],
          [context |-> <<"d","e","f","a","u","l","t">>,
           terms |-> << <<"O","b","j","e","c","t"," ","(","c","o","m","p","u","t","e","r"," ","s","c","i","e","n","c","e",")">> >>] >>],
      [word |-> <<"f","u","n","c","t","i","o","n">>,
       mappings |-> <<
          [context |-> <<"p","r","o","g","r","a","m","m","i","n","g">>,
           terms |-> << <<"F","u","n","c","t","i","o","n"," ","(","c","o","m","p","u","t","e","r"," ","p","r","o","g","r","a","m","m","i","n","g",")">>,
                      <<"S","u","b","r","o","u","t","i","n","e">> >>],
          [context |-> <<"m","a","t","h">>,
           terms |-> << <<"F","u","n","c","t","i","o","n"," ","(","m","a","t","h","e","m","a","t","i","c","s",")">> >>],
          [context |-> <<"d","e","f","a","u","l","t">>,
           terms |-> << <<"F","u","n","c","t","i","o","n"," ","(","c","o","m","p","u","t","e","r"," ","p","r","o","g","r","a","m","m","i","n","g",")">> >>] >>],
      [word |-> <<"m","e","t","h","o","d">>,
       mappings |-> <<
          [context |-> <<"p","r","o","g","r","a","m","m","i","n","g">>,
           terms |-> << <<"M","e","t","h","o","d"," ","(","c","o","m","p","u","t","e","r"," ","p","r","o","g","r","a","m","m","i","n","g",")">>,
                      <<"O","b","j","e","c","t","-","o","r","i","e","n","t","e","d"," ","m","e","t","h","o","d">> >>],
          [context |-> <<"d","e","f","a","u","l","t">>,
           terms |-> << <<"M","e","t","h","o","d"," ","(","c","o","m","p","u","t","e","r"," ","p","r","o","g","r","a","m","m","i","n","g",")">> >>] >>],
      [word |-> <<"v","a","r","i","a","b","l","e">>,
       mappings |-> <<
          [context |-> <<"p","r","o","g","r","a","m","m","i","n","g">>,
           terms |-> << <<"V","a","r","i","a","b","l","e"," ","(","c","o","m","p","u","t","e","r"," ","s","c","i","e","n","c","e",")">>,
                      <<"P","r","o","g","r","a","m","m","i","n","g"," ","v","a","r","i","a","b","l","e">> >>],
          [context |-> <<"m","a","t","h">>,
           terms |-> << <<"V","a","r","i","a","b","l","e"," ","(","m","a","t","h","e","m","a","t","i","c","s",")">> >>],
          [context |-> <<"d","e","f","a","u","l","t">>,
           terms |-> << <<"V","a","r","i","a","b","l","e"," ","(","c","o","m","p","u","t","e","r"," ","s","c","i","e","n","c","e",")">> >>] >>],
      [word |-> <<"s","t","r","i","n","g">>,
       mappings |-> <<
          [context |-> <<"p","r","o","g","r","a","m","m","i","n","g">>,
           terms |-> << <<"S","t","r","i","n","g"," ","(","c","o","m","p","u","t","e","r"," ","s","c","i","e","n","c","e",")">>,
                      <<"C","h","a","r","a","c","t","e","r"," ","s","t","r","i","n","g">> >>],
          [context |-> <<"m","u","s","i","c">>,
           terms |-> << <<"S","t","r","i","n","g"," ","i","n","s","t","r","u","m","e","n","t">>,
                      <<"G","u","i","t","a","r"," ","s","t","r","i","n","g">> >>],
          [context |-> <<"d","e","f","a","u","l","t">>,
           terms |-> << <<"S","t","r","i","n","g"," ","(","c","o","m","p","u","t","e","r"," ","s","c","i","e","n","c","e",")">> >>] >>],
      [word |-> <<"a","r","r","a","y">>,
       mappings |-> <<
          [context |-> <<"p","r","o","g","r","a","m","m","i","n","g">>,
           terms |-> << <<"A","r","r","a","y"," ","(","d","a","t","a"," ","s","t","r","u","c","t","u","r","e",")">>,
                      <<"A","r","r","a","y"," ","d","a","t","a"," ","t","y","p","e">> >>],
          [context |-> <<"d","e","f","a","u","l","t">>,
           terms |-> << <<"A","r","r","a","y"," ","(","d","a","t","a"," ","s","t","r","u","c","t","u","r","e",")">> >>] >>],
      [word |-> <<"l","o","o","p">>,
       mappings |-> <<
          [context |-> <<"p","r","o","g","r","a","m","m","i","n","g">>,
           terms |-> << <<"L","o","o","p"," ","(","p","r","o","g","r","a","m","m","i","n","g",")">>,
                      <<"C","o","n","t","r","o","l"," ","f","l","o","w"," ","l","o","o","p">> >>],
          [context |-> <<"d","e","f","a","u","l","t">>,
           terms |-> << <<"L","o","o","p"," ","(","p","r","o","g","r","a","m","m","i","n","g",")">> >>] >>],
      [word |-> <<"i","n","h","e","r","i","t","a","n","c","e">>,
       mappings |-> <<
          [context |-> <<"p","r","o","g","r","a","m","m","i","n","g">>,
           terms |-> << <<"I","n","h","e","r","i","t","a","n","c","e"," ","(","o","b","j","e","c","t","-","o","r","i","e","n","t","e","d"," ","p","r","o","g","r","a","m","m","i","n","g",")">>,
                      <<"O","O","P"," ","i","n","h","e","r","i","t","a","n","c","e">> >>],
          [context |-> <<"d","e","f","a","u","l","t">>,
           terms |-> << <<"I","n","h","e","r","i","t","a","n","c","e"," ","(","o","b","j","e","c","t","-","o","r","i","e","n","t","e","d"," ","p","r","o","g","r","a","m","m","i","n","g",")">> >>] >>],
      [word |-> <<"i","n","t","e","r","f","a","c","e">>,
       mappings |-> <<
          [context |-> <<"p","r","o","g","r","a","m","m","i","n","g">>,
           terms |-> << <<"I","n","t","e","r","f","a","c","e"," ","(","c","o","m","p","u","t","i","n","g",")">>,
                      <<"P","r","o","t","o","c","o","l"," ","(","o","b","j","e","c","t","-","o","r","i","e","n","t","e","d"," ","p","r","o","g","r","a","m","m","i","n","g",")">> >>],
          [context |-> <<"d","e","f","a","u","l","t">>,
           terms |-> << <<"I","n","t","e","r","f","a","c","e"," ","(","c","o","m","p","u","t","i","n","g",")">> >>] >>],
      [word |-> <<"m","o","d","u","l","e">>,
       mappings |-> <<
          [context |-> <<"p","r","o","g","r","a","m","m","i","n","g">>,
           terms |-> << <<"M","o","d","u","l","e"," ","(","p","r","o","g","r","a","m","m","i","n","g",")">>,
                      <<"M","o","d","u","l","a","r"," ","p","r","o","g","r","a","m","m","i","n","g">> >>],
          [context |-> <<"d","e","f","a","u","l","t">>,
           terms |-> << <<"M","o","d","u","l","e"," ","(","p","r","o","g","r","a","m","m","i","n","g",")">> >>] >>],
      [word |-> <<"p","a","c","k","a","g","e">>,
       mappings |-> <<
          [context |-> <<"p","r","o","g","r","a","m","m","i","n","g">>,
           terms |-> << <<"P","a","c","k","a","g","e"," ","(","p","r","o","g","r","a","m","m","i","n","g",")">>,
                      <<"S","o","f","t","w","a","r","e"," ","p","a","c","k","a","g","e">> >>],
          [context |-> <<"d","e","f","a","u","l","t">>,
           terms |-> << <<"P","a","c","k","a","g","e"," ","(","p","r","o","g","r","a","m","m","i","n","g",")">> >>] >>],
      [word |-> <<"e","x","c","e","p","t","i","o","n">>,
       mappings |-> <<
          [context |-> <<"p","r","o","g","r","a","m","m","i","n","g">>,
           terms |-> << <<"E","x","c","e","p","t","i","o","n"," ","h","a","n","d","l","i","n","g">>,
                      <<"E","x","c","e","p","t","i","o","n"," ","(","c","o","m","p","u","t","e","r"," ","p","r","o","g","r","a","m","m","i","n","g",")">> >>],
          [context |-> <<"d","e","f","a","u","l","t">>,
           terms |-> << <<"E","x","c","e","p","t","i","o","n"," ","h","a","n","d","l","i","n","g">> >>] >>],
      [word |-> <<"c","o","n","s","t","r","u","c","t","o","r">>,
       mappings |-> <<
          [context |-> <<"p","r","o","g","r","a","m","m","i","n","g">>,
           terms |-> << <<"C","o","n","s","t","r","u","c","t","o","r"," ","(","o","b","j","e","c","t","-","o","r","i","e","n","t","e","d"," ","p","r","o","g","r","a","m","m","i","n","g",")">>,
                      <<"C","l","a","s","s"," ","c","o","n","s","t","r","u","c","t","o","r">> >>],
          [context |-> <<"d","e","f","a","u","l","t">>,
           terms |-> << <<"C","o","n","s","t","r","u","c","t","o","r"," ","(","o","b","j","e","c","t","-","o","r","i","e","n","t","e","d"," ","p","r","o","g","r","a","m","m","i","n","g",")">> >>] >>],
      [word |-> <<"i","n","s","t","a","n","c","e">>,
       mappings |-> <<
          [context |-> <<"p","r","o","g","r","a","m","m","i","n","g">>,
           terms |-> << <<"I","n","s","t","a","n","c","e"," ","(","c","o","m","p","u","t","e","r"," ","s","c","i","e","n","c","e",")">>,
                      <<"O","b","j","e","c","t"," ","i","n","s","t","a","n","c","e">> >>],
          [context |-> <<"d","e","f","a","u","l","t">>,
           terms |-> << <<"I","n","s","t","a","n","c","e"," ","(","c","o","m","p","u","t","e","r"," ","s","c","i","e","n","c","e",")">> >>] >>],
      [word |-> <<"p","o","i","n","t","e","r">>,
       mappings |-> <<
          [context |-> <<"p","r","o","g","r","a","m","m","i","n","g">>,
           terms |-> << <<"P","o","i","n","t","e","r"," ","(","c","o","m","p","u","t","e","r"," ","p","r","o","g","r","a","m","m","i","n","g",")">>,
                      <<"M","e","m","o","r","y"," ","p","o","i","n","t","e","r">> >>],
          [context |-> <<"d","e","f","a","u","l","t">>,
           terms |-> << <<"P","o","i","n","t","e","r"," ","(","c","o","m","p","u","t","e","r"," ","p","r","o","g","r","a","m","m","i","n","g",")">> >>] >>],
      [word |-> <<"s","t","a","c","k">>,
       mappings |-> <<
          [context |-> <<"p","r","o","g","r","a","m","m","i","n","g">>,
           terms |-> << <<"S","t","a","c","k"," ","(","a","b","s","t","r","a","c","t"," ","d","a","t","a"," ","t","y","p","e",")">>,
                      <<"C","a","l","l"," ","s","t","a","c","k">> >>],
          [context |-> <<"d","e","f","a","u","l","t">>,
           terms |-> << <<"S","t","a","c","k"," ","(","a","b","s","t","r","a","c","t"," ","d","a","t","a"," ","t","y","p","e",")">> >>] >>],
      [word |-> <<"q","u","e","u","e">>,
       mappings |-> <<
          [context |-> <<"p","r","o","g","r","a","m","m","i","n","g">>,
           terms |-> << <<"Q","u","e","u","e"," ","(","a","b","s","t","r","a","c","t"," ","d","a","t","a"," ","t","y","p","e",")">>,
                      <<"F","I","F","O"," ","q","u","e","u","e">> >>],
          [context |-> <<"d","e","f","a","u","l","t">>,
           terms |-> << <<"Q","u","e","u","e"," ","(","a","b","s","t","r","a","c","t"," ","d","a","t","a"," ","t","y","p","e",")">> >>] >>],
      [word |-> <<"t","r","e","e">>,
       mappings |-> <<
          [context |-> <<"p","r","o","g","r","a","m","m","i","n","g">>,
           terms |-> << <<"T","r","e","e"," ","(","d","a","t","a"," ","s","t","r","u","c","t","u","r","e",")">>,
                      <<"B","i","n","a","r","y"," ","t","r","e","e">> >>],
          [context |-> <<"b","i","o","l","o","g","y">>,
           terms |-> << <<"T","r","e","e">>,
                      <<"W","o","o","d","y"," ","p","l","a","n","t">> >>],
          [context |-> <<"d","e","f","a","u","l","t">>,
           terms |-> << <<"T","r","e","e"," ","(","d","a","t","a"," ","s","t","r","u","c","t","u","r","e",")">> >>] >>],
      [word |-> <<"n","o","d","e">>,
       mappings |-> <<
          [context |-> <<"p","r","o","g","r","a","m","m","i","n","g">>,
           terms |-> << <<"N","o","d","e"," ","(","c","o","m","p","u","t","e","r"," ","s","c","i","e","n","c","e",")">>,
                      <<"D","a","t","a"," ","s","t","r","u","c","t","u","r","e"," ","n","o","d","e">> >>],
          [context |-> <<"d","e","f","a","u","l","t">>,
           terms |-> << <<"N","o","d","e"," ","(","c","o","m","p","u","t","e","r"," ","s","c","i","e","n","c","e",")">> >>] >>],
      [word |-> <<"g","r","a","p","h">>,
       mappings |-> <<
          [context |-> <<"p","r","o","g","r","a","m","m","i","n","g">>,
           terms |-> << <<"G","r","a","p","h"," ","(","a","b","s","t","r","a","c","t"," ","d","a","t","a"," ","t","y","p","e",")">>,
                      <<"G","r","a","p","h"," ","t","h","e","o","r","y">> >>],
          [context |-> <<"m","a","t","h">>,
           terms |-> << <<"G","r","a","p","h"," ","(","d","i","s","c","r","e","t","e"," ","m","a","t","h","e","m","a","t","i","c","s",")">> >>],
          [context |-> <<"d","e","f","a","u","l","t">>,
           terms |-> << <<"G","r","a","p","h"," ","(","a","b","s","t","r","a","c","t"," ","d","a","t","a"," ","t","y","p","e",")">> >>] >>],
      [word |-> <<"a","p","p","l","e">>,
       mappings |-> <<
          [context |-> <<"t","e","c","h","_","c","o","m","p","a","n","y">>,
           terms |-> << <<"A","p","p","l","e"," ","I","n","c",".">>,
                      <<"A","p","p","l","e"," ","(","c","o","m","p","a","n","y",")">> >>],
          [context |-> <<"f","o","o","d">>,
           terms |-> << <<"A","p","p","l","e">>,
                      <<"A","p","p","l","e"," ","f","r","u","i","t">> >>],
          [context |-> <<"b","i","o","l","o","g","y">>,
           terms |-> << <<"A","p","p","l","e">>,
                      <<"A","p","p","l","e"," ","f","r","u","i","t">> >>] >>],
      [word |-> <<"a","m","a","z","o","n">>,
       mappings |-> <<
          [context |-> <<"t","e","c","h","_","c","o","m","p","a","n","y">>,
           terms |-> << <<"A","m","a","z","o","n"," ","(","c","o","m","p","a","n","y",")">>,
                      <<"A","m","a","z","o","n",".","c","o","m">> >>],
          [context |-> <<"g","e","o","g","r","a","p","h","y">>,
           terms |-> << <<"A","m","a","z","o","n"," ","R","i","v","e","r">>,
                      <<"A","m","a","z","o","n"," ","r","a","i","n","f","o","r","e","s","t">> >>] >>],
      [word |-> <<"o","r","a","c","l","e">>,
       mappings |-> <<
          [context |-> <<"p","r","o","g","r","a","m","m","i","n","g">>,
           terms |-> << <<"O","r","a","c","l","e"," ","C","o","r","p","o","r","a","t","i","o","n">>,
                      <<"O","r","a","c","l","e"," ","D","a","t","a","b","a","s","e">> >>],
          [context |-> <<"d","e","f","a","u","l","t">>,
           terms |-> << <<"O","r","a","c","l","e"," ","C","o","r","p","o","r","a","t","i","o","n">> >>] >>],
      [word |-> <<"r","u","b","y">>,
       mappings |-> <<
          [context |-> <<"p","r","o","g","r","a","m","m","i","n","g">>,
           terms |-> << <<"R","u","b","y"," ","(","p","r","o","g","r","a","m","m","i","n","g"," ","l","a","n","g","u","a","g","e",")">> >>],
          [context |-> <<"d","e","f","a","u","l","t">>,
           terms |-> << <<"R","u","b","y"," ","(","p","r","o","g","r","a","m","m","i","n","g"," ","l","a","n","g","u","a","g","e",")">> >>] >>],
      [word |-> <<"r","u","s","t">>,
       mappings |-> <<
          [context |-> <<"p","r","o","g","r","a","m","m","i","n","g">>,
           terms |-> << <<"R","u","s","t"," ","(","p","r","o","g","r","a","m","m","i","n","g"," ","l","a","n","g","u","a","g","e",")">> >>],
          [context |-> <<"d","e","f","a","u","l","t">>,
           terms |-> << <<"R","u","s","t"," ","(","p","r","o","g","r","a","m","m","i","n","g"," ","l","a","n","g","u","a","g","e",")">> >>] >>],
      [word |-> <<"s","w","i","f","t">>,
       mappings |-> <<
          [context |-> <<"p","r","o","g","r","a","m","m","i","n","g">>,
           terms |-> << <<"S","w","i","f","t"," ","(","p","r","o","g","r","a","m","m","i","n","g"," ","l","a","n","g","u","a","g","e",")">> >>],
          [context |-> <<"d","e","f","a","u","l","t">>,
           terms |-> << <<"S","w","i","f","t"," ","(","p","r","o","g","r","a","m","m","i","n","g"," ","l","a","n","g","u","a","g","e",")">> >>] >>],
      [word |-> <<"g","o">>,
       mappings |-> <<
          [context |-> <<"p","r","o","g","r","a","m","m","i","n","g">>,
           terms |-> << <<"G","o"," ","(","p","r","o","g","r","a","m","m","i","n","g"," ","l","a","n","g","u","a","g","e",")">> >>],
          [context |-> <<"d","e","f","a","u","l","t">>,
           terms |-> << <<"G","o"," ","(","p","r","o","g","r","a","m","m","i","n","g"," ","l","a","n","g","u","a","g","e",")">> >>] >>],
      [word |-> <<"s","c","a","l","a">>,
       mappings |-> <<
          [context |-> <<"p","r","o","g","r","a","m","m","i","n","g">>,
           terms |-> << <<"S","c","a","l","a"," ","(","p","r","o","g","r","a","m","m","i","n","g"," ","l","a","n","g","u","a","g","e",")">> >>],
          [context |-> <<"d","e","f","a","u","l","t">>,
           terms |-> << <<"S","c","a","l","a"," ","(","p","r","o","g","r","a","m","m","i","n","g"," ","l","a","n","g","u","a","g","e",")">> >>] >>],
      [word |-> <<"k","o","t","l","i","n">>,
       mappings |-> <<
          [context |-> <<"p","r","o","g","r","a","m","m","i","n","g">>,
           terms |-> << <<"K","o","t","l","i","n"," ","(","p","r","o","g","r","a","m","m","i","n","g"," ","l","a","n","g","u","a","g","e",")">> >>],
          [context |-> <<"d","e","f","a","u","l","t">>,
           terms |-> << <<"K","o","t","l","i","n"," ","(","p","r","o","g","r","a","m","m","i","n","g"," ","l","a","n","g","u","a","g","e",")">> >>] >>],
      [word |-> <<"c">>,
       mappings |-> <<
          [context |-> <<"p","r","o","g","r","a","m","m","i","n","g">>,
           terms |-> << <<"C"," ","(","p","r","o","g","r","a","m","m","i","n","g"," ","l","a","n","g","u","a","g","e",")">> >>],
          [context |-> <<"d","e","f","a","u","l","t">>,
           terms |-> << <<"C"," ","(","p","r","o","g","r","a","m","m","i","n","g"," ","l","a","n","g","u","a","g","e",")">> >>] >>],
      [word |-> <<"r">>,
       mappings |-> <<
          [context |-> <<"p","r","o","g","r","a","m","m","i","n","g">>,
           terms |-> << <<"R"," ","(","p","r","o","g","r","a","m","m","i","n","g"," ","l","a","n","g","u","a","g","e",")">> >>],
          [context |-> <<"d","e","f","a","u","l","t">>,
           terms |-> << <<"R"," ","(","p","r","o","g","r","a","m","m","i","n","g"," ","l","a","n","g","u","a","g","e",")">> >>] >>],
      [word |-> <<"d","a","r","t">>,
       mappings |-> <<
          [context |-> <<"p","r","o","g","r","a","m","m","i","n","g">>,
           terms |-> << <<"D","a","r","t"," ","(","p","r","o","g","r","a","m","m","i","n","g"," ","l","a","n","g","u","a","g","e",")">> >>],
          [context |-> <<"d","e","f","a","u","l","t">>,
           terms |-> << <<"D","a","r","t"," ","(","p","r","o","g","r","a","m","m","i","n","g"," ","l","a","n","g","u","a","g","e",")">> >>] >>],
      [word |-> <<"s","h","e","l","l">>,
       mappings |-> <<
          [context |-> <<"p","r","o","g","r","a","m","m","i","n","g">>,
           terms |-> << <<"S","h","e","l","l"," ","(","c","o","m","p","u","t","i","n","g",")">>,
                      <<"U","n","i","x"," ","s","h","e","l","l">>,
                      <<"C","o","m","m","a","n","d","-","l","i","n","e"," ","i","n","t","e","r","f","a","c","e">> >>],
          [context |-> <<"b","i","o","l","o","g","y">>,
           terms |-> << <<"S","h","e","l","l"," ","(","b","i","o","l","o","g","y",")">>,
                      <<"S","e","a","s","h","e","l","l">> >>],
          [context |-> <<"d","e","f","a","u","l","t">>,
           terms |-> << <<"S","h","e","l","l"," ","(","c","o","m","p","u","t","i","n","g",")">> >>] >>],
      [word |-> <<"b","a","s","h">>,
       mappings |-> <<
          [context |-> <<"p","r","o","g","r","a","m","m","i","n","g">>,
           terms |-> << <<"B","a","s","h"," ","(","U","n","i","x"," ","s","h","e","l","l",")">>,
                      <<"B","o","u","r","n","e"," ","A","g","a","i","n"," ","S","h","e","l","l">> >>],
          [context |-> <<"d","e","f","a","u","l","t">>,
           terms |-> << <<"B","a","s","h"," ","(","U","n","i","x"," ","s","h","e","l","l",")">> >>] >>],
      [word |-> <<"s","c","r","i","p","t">>,
       mappings |-> <<
          [context |-> <<"p","r","o","g","r","a","m","m","i","n","g">>,
           terms |-> << <<"S","c","r","i","p","t","i","n","g"," ","l","a","n","g","u","a","g","e">>,
                      <<"S","c","r","i","p","t"," ","(","c","o","m","p","u","t","i","n","g",")">> >>],
          [context |-> <<"d","e","f","a","u","l","t">>,
           terms |-> << <<"S","c","r","i","p","t","i","n","g"," ","l","a","n","g","u","a","g","e">> >>] >>],
      [word |-> <<"l","i","b","r","a","r","y">>,
       mappings |-> <<
          [context |-> <<"p","r","o","g","r","a","m","m","i","n","g">>,
           terms |-> << <<"L","i","b","r","a","r","y"," ","(","c","o","m","p","u","t","i","n","g",")">>,
                      <<"S","o","f","t","w","a","r","e"," ","l","i","b","r","a","r","y">> >>],
          [context |-> <<"d","e","f","a","u","l","t">>,
           terms |-> << <<"L","i","b","r","a","r","y"," ","(","c","o","m","p","u","t","i","n","g",")">> >>] >>],
      [word |-> <<"f","r","a","m","e","w","o","r","k">>,
       mappings |-> <<
          [context |-> <<"p","r","o","g","r","a","m","m","i","n","g">>,
           terms |-> << <<"S","o","f","t","w","a","r","e"," ","f","r","a","m","e","w","o","r","k">>,
                      <<"W","e","b"," ","f","r","a","m","e","w","o","r","k">> >>],
          [context |-> <<"d","e","f","a","u","l","t">>,
           terms |-> << <<"S","o","f","t","w","a","r","e"," ","f","r","a","m","e","w","o","r","k">> >>] >>],
      [word |-> <<"c","o","m","p","i","l","e","r">>,
       mappings |-> <<
          [context |-> <<"p","r","o","g","r","a","m","m","i","n","g">>,
           terms |-> << <<"C","o","m","p","i","l","e","r">>,
                      <<"S","o","u","r","c","e"," ","c","o","d","e"," ","c","o","m","p","i","l","e","r">> >>],
          [context |-> <<"d","e","f","a","u","l","t">>,
           terms |-> << <<"C","o","m","p","i","l","e","r">> >>] >>],
      [word |-> <<"i","n","t","e","r","p","r","e","t","e","r">>,
       mappings |-> <<
          [context |-> <<"p","r","o","g","r","a","m","m","i","n","g">>,
           terms |-> << <<"I","n","t","e","r","p","r","e","t","e","r"," ","(","c","o","m","p","u","t","i","n","g",")">>,
                      <<"P","r","o","g","r","a","m","m","i","n","g"," ","i","n","t","e","r","p","r","e","t","e","r">> >>],
          [context |-> <<"d","e","f","a","u","l","t">>,
           terms |-> << <<"I","n","t","e","r","p","r","e","t","e","r"," ","(","c","o","m","p","u","t","i","n","g",")">> >>] >>],
      [word |-> <<"r","u","n","t","i","m","e">>,
       mappings |-> <<
          [context |-> <<"p","r","o","g","r","a","m","m","i","n","g">>,
           terms |-> << <<"R","u","n","t","i","m","e"," ","s","y","s","t","e","m">>,
                      <<"R","u","n","t","i","m","e"," ","e","n","v","i","r","o","n","m","e","n","t">> >>],
          [context |-> <<"d","e","f","a","u","l","t">>,
           terms |-> << <<"R","u","n","t","i","m","e"," ","s","y","s","t","e","m">> >>] >>],
      [word |-> <<"t","h","r","e","a","d">>,
       mappings |-> <<
          [context |-> <<"p","r","o","g","r","a","m","m","i","n","g">>,
           terms |-> << <<"T","h","r","e","a","d"," ","(","c","o","m","p","u","t","i","n","g",")">>,
                      <<"E","x","e","c","u","t","i","o","n"," ","t","h","r","e","a","d">> >>],
          [context |-> <<"d","e","f","a","u","l","t">>,
           terms |-> << <<"T","h","r","e","a","d"," ","(","c","o","m","p","u","t","i","n","g",")">> >>] >>],
      [word |-> <<"p","r","o","c","e","s","s">>,
       mappings |-> <<
          [context |-> <<"p","r","o","g","r","a","m","m","i","n","g">>,
           terms |-> << <<"P","r","o","c","e","s","s"," ","(","c","o","m","p","u","t","i","n","g",")">>,
                      <<"C","o","m","p","u","t","e","r"," ","p","r","o","c","e","s","s">> >>],
          [context |-> <<"d","e","f","a","u","l","t">>,
           terms |-> << <<"P","r","o","c","e","s","s"," ","(","c","o","m","p","u","t","i","n","g",")">> >>] >>],
      [word |-> <<"s","o","c","k","e","t">>,
       mappings |-> <<
          [context |-> <<"p","r","o","g","r","a","m","m","i","n","g">>,
           terms |-> << <<"N","e","t","w","o","r","k"," ","s","o","c","k","e","t">>,
                      <<"S","o","c","k","e","t"," ","(","c","o","m","p","u","t","i","n","g",")">> >>],
          [context |-> <<"d","e","f","a","u","l","t">>,
           terms |-> << <<"N","e","t","w","o","r","k"," ","s","o","c","k","e","t">> >>] >>],
      [word |-> <<"p","o","r","t">>,
       mappings |-> <<
          [context |-> <<"p","r","o","g","r","a","m","m","i","n","g">>,
           terms |-> << <<"P","o","r","t"," ","(","c","o","m","p","u","t","e","r"," ","n","e","t","w","o","r","k","i","n","g",")">>,
                      <<"N","e","t","w","o","r","k"," ","p","o","r","t">> >>],
          [context |-> <<"d","e","f","a","u","l","t">>,
           terms |-> << <<"P","o","r","t"," ","(","c","o","m","p","u","t","e","r"," ","n","e","t","w","o","r","k","i","n","g",")">> >>] >>],
      [word |-> <<"p","r","o","t","o","c","o","l">>,
       mappings |-> <<
          [context |-> <<"p","r","o","g","r","a","m","m","i","n","g">>,
           terms |-> << <<"C","o","m","m","u","n","i","c","a","t","i","o","n","s"," ","p","r","o","t","o","c","o","l">>,
                      <<"N","e","t","w","o","r","k"," ","p","r","o","t","o","c","o","l">> >>],
          [context |-> <<"d","e","f","a","u","l","t">>,
           terms |-> << <<"C","o","m","m","u","n","i","c","a","t","i","o","n","s"," ","p","r","o","t","o","c","o","l">> >>] >>],
      [word |-> <<"a","p","i">>,
       mappings |-> <<
          [context |-> <<"p","r","o","g","r","a","m","m","i","n","g">>,
           terms |-> << <<"A","P","I">>,
                      <<"A","p","p","l","i","c","a","t","i","o","n"," ","p","r","o","g","r","a","m","m","i","n","g"," ","i","n","t","e","r","f","a","c","e">> >>],
          [context |-> <<"d","e","f","a","u","l","t">>,
           terms |-> << <<"A","P","I">> >>] >>],
      [word |-> <<"s","d","k">>,
       mappings |-> <<
          [context |-> <<"p","r","o","g","r","a","m","m","i","n","g">>,
           terms |-> << <<"S","o","f","t","w","a","r","e"," ","d","e","v","e","l","o","p","m","e","n","t"," ","k","i","t">>,
                      <<"S","D","K">> >>],
          [context |-> <<"d","e","f","a","u","l","t">>,
           terms |-> << <<"S","o","f","t","w","a","r","e"," ","d","e","v","e","l","o","p","m","e","n","t"," ","k","i","t">> >>] >>],
      [word |-> <<"i","d","e">>,
       mappings |-> <<
          [context |-> <<"p","r","o","g","r","a","m","m","i","n","g">>,
           terms |-> << <<"I","n","t","e","g","r","a","t","e","d"," ","d","e","v","e","l","o","p","m","e","n","t"," ","e","n","v","i","r","o","n","m","e","n","t">>,
                      <<"I","D","E">> >>],
          [context |-> <<"d","e","f","a","u","l","t">>,
           terms |-> << <<"I","n","t","e","g","r","a","t","e","d"," ","d","e","v","e","l","o","p","m","e","n","t"," ","e","n","v","i","r","o","n","m","e","n","t">> >>] >>],
      [word |-> <<"b","u","g">>,
       mappings |-> <<
          [context |-> <<"p","r","o","g","r","a","m","m","i","n","g">>,
           terms |-> << <<"S","o","f","t","w","a","r","e"," ","b","u","g">>,
                      <<"C","o","m","p","u","t","e","r"," ","b","u","g">> >>],
          [context |-> <<"b","i","o","l","o","g","y">>,
           terms |-> << <<"I","n","s","e","c","t">>,
                      <<"B","u","g"," ","(","i","n","s","e","c","t",")">> >>],
          [context |-> <<"d","e","f","a","u","l","t">>,
           terms |-> << <<"S","o","f","t","w","a","r","e"," ","b","u","g">> >>] >>],
      [word |-> <<"p","a","t","c","h">>,
       mappings |-> <<
          [context |-> <<"p","r","o","g","r","a","m","m","i","n","g">>,
           terms |-> << <<"P","a","t","c","h"," ","(","c","o","m","p","u","t","i","n","g",")">>,
                      <<"S","o","f","t","w","a","r","e"," ","p","a","t","c","h">> >>],
          [context |-> <<"d","e","f","a","u","l","t">>,
           terms |-> << <<"P","a","t","c","h"," ","(","c","o","m","p","u","t","i","n","g",")">> >>] >>],
      [word |-> <<"b","r","a","n","c","h">>,
       mappings |-> <<
          [context |-> <<"p","r","o","g","r","a","m","m","i","n","g">>,
           terms |-> << <<"B","r","a","n","c","h","i","n","g"," ","(","v","e","r","s","i","o","n"," ","c","o","n","t","r","o","l",")">>,
                      <<"G","i","t"," ","b","r","a","n","c","h">> >>],
          [context |-> <<"b","i","o","l","o","g","y">>,
           terms |-> << <<"B","r","a","n","c","h"," ","(","b","o","t","a","n","y",")">>,
                      <<"T","r","e","e"," ","b","r","a","n","c","h">> >>],
          [context |-> <<"d","e","f","a","u","l","t">>,
           terms |-> << <<"B","r","a","n","c","h","i","n","g"," ","(","v","e","r","s","i","o","n"," ","c","o","n","t","r","o","l",")">> >>] >>],
      [word |-> <<"m","e","r","g","e">>,
       mappings |-> <<
          [context |-> <<"p","r","o","g","r","a","m","m","i","n","g">>,
           terms |-> << <<"M","e","r","g","e"," ","(","v","e","r","s","i","o","n"," ","c","o","n","t","r","o","l",")">>,
                      <<"G","i","t"," ","m","e","r","g","e">> >>],
          [context |-> <<"d","e","f","a","u","l","t">>,
           terms |-> << <<"M","e","r","g","e"," ","(","v","e","r","s","i","o","n"," ","c","o","n","t","r","o","l",")">> >>] >>],
      [word |-> <<"c","o","m","m","i","t">>,
       mappings |-> <<
          [context |-> <<"p","r","o","g","r","a","m","m","i","n","g">>,
           terms |-> << <<"C","o","m","m","i","t"," ","(","v","e","r","s","i","o","n"," ","c","o","n","t","r","o","l",")">>,
                      <<"G","i","t"," ","c","o","m","m","i","t">> >>],
          [context |-> <<"d","e","f","a","u","l","t">>,
           terms |-> << <<"C","o","m","m","i","t"," ","(","v","e","r","s","i","o","n"," ","c","o","n","t","r","o","l",")">> >>] >>],
      [word |-> <<"r","e","p","o","s","i","t","o","r","y">>,
       mappings |-> <<
          [context |-> <<"p","r","o","g","r","a","m","m","i","n","g">>,
           terms |-> << <<"R","e","p","o","s","i","t","o","r","y"," ","(","v","e","r","s","i","o","n"," ","c","o","n","t","r","o","l",")">>,
                      <<"S","o","f","t","w","a","r","e"," ","r","e","p","o","s","i","t","o","r","y">> >>],
          [context |-> <<"d","e","f","a","u","l","t">>,
           terms |-> << <<"R","e","p","o","s","i","t","o","r","y"," ","(","v","e","r","s","i","o","n"," ","c","o","n","t","r","o","l",")">> >>] >>],
      [word |-> <<"c","o","n","t","a","i","n","e","r">>,
       mappings |-> <<
          [context |-> <<"p","r","o","g","r","a","m","m","i","n","g">>,
           terms |-> << <<"C","o","n","t","a","i","n","e","r"," ","(","c","o","m","p","u","t","i","n","g",")">>,
                      <<"D","o","c","k","e","r"," ","c","o","n","t","a","i","n","e","r">>,
                      <<"O","S","-","l","e","v","e","l"," ","v","i","r","t","u","a","l","i","z","a","t","i","o","n">> >>],
          [context |-> <<"d","e","f","a","u","l","t">>,
           terms |-> << <<"C","o","n","t","a","i","n","e","r"," ","(","c","o","m","p","u","t","i","n","g",")">> >>] >>],
      [word |-> <<"d","o","c","k","e","r">>,
       mappings |-> <<
          [context |-> <<"p","r","o","g","r","a","m","m","i","n","g">>,
           terms |-> << <<"D","o","c","k","e","r"," ","(","s","o","f","t","w","a","r","e",")">>,
                      <<"D","o","c","k","e","r"," ","c","o","n","t","a","i","n","e","r"," ","p","l","a","t","f","o","r","m">> >>],
          [context |-> <<"d","e","f","a","u","l","t">>,
           terms |-> << <<"D","o","c","k","e","r"," ","(","s","o","f","t","w","a","r","e",")">> >>] >>],
      [word |-> <<"k","u","b","e","r","n","e","t","e","s">>,
       mappings |-> <<
          [context |-> <<"p","r","o","g","r","a","m","m","i","n","g">>,
           terms |-> << <<"K","u","b","e","r","n","e","t","e","s">>,
                      <<"C","o","n","t","a","i","n","e","r"," ","o","r","c","h","e","s","t","r","a","t","i","o","n">> >>],
          [context |-> <<"d","e","f","a","u","l","t">>,
           terms |-> << <<"K","u","b","e","r","n","e","t","e","s">> >>] >>],
      [word |-> <<"c","l","o","u","d">>,
       mappings |-> <<
          [context |-> <<"p","r","o","g","r","a","m","m","i","n","g">>,
           terms |-> << <<"C","l","o","u","d"," ","c","o","m","p","u","t","i","n","g">>,
                      <<"C","l","o","u","d"," ","i","n","f","r","a","s","t","r","u","c","t","u","r","e">> >>],
          [context |-> <<"d","e","f","a","u","l","t">>,
           terms |-> << <<"C","l","o","u","d"," ","c","o","m","p","u","t","i","n","g">> >>] >>],
      [word |-> <<"l","a","m","b","d","a">>,
       mappings |-> <<
          [context |-> <<"p","r","o","g","r","a","m","m","i","n","g">>,
           terms |-> << <<"A","n","o","n","y","m","o","u","s"," ","f","u","n","c","t","i","o","n">>,
                      <<"L","a","m","b","d","a"," ","c","a","l","c","u","l","u","s">>,
                      <<"A","W","S"," ","L","a","m","b","d","a">> >>],
          [context |-> <<"d","e","f","a","u","l","t">>,
           terms |-> << <<"A","n","o","n","y","m","o","u","s"," ","f","u","n","c","t","i","o","n">> >>] >>],
      [word |-> <<"e","x","p","r","e","s","s","i","o","n">>,
       mappings |-> <<
          [context |-> <<"p","r","o","g","r","a","m","m","i","n","g">>,
           terms |-> << <<"E","x","p","r","e","s","s","i","o","n"," ","(","c","o","m","p","u","t","e","r"," ","s","c","i","e","n","c","e",")">>,
                      <<"P","r","o","g","r","a","m","m","i","n","g"," ","e","x","p","r","e","s","s","i","o","n">> >>],
          [context |-> <<"d","e","f","a","u","l","t">>,
           terms |-> << <<"E","x","p","r","e","s","s","i","o","n"," ","(","c","o","m","p","u","t","e","r"," ","s","c","i","e","n","c","e",")">> >>] >>],
      [word |-> <<"s","t","a","t","e","m","e","n","t">>,
       mappings |-> <<
          [context |-> <<"p","r","o","g","r","a","m","m","i","n","g">>,
           terms |-> << <<"S","t","a","t","e","m","e","n","t"," ","(","c","o","m","p","u","t","e","r"," ","s","c","i","e","n","c","e",")">>,
                      <<"P","r","o","g","r","a","m","m","i","n","g"," ","s","t","a","t","e","m","e","n","t">> >>],
          [context |-> <<"d","e","f","a","u","l","t">>,
           terms |-> << <<"S","t","a","t","e","m","e","n","t"," ","(","c","o","m","p","u","t","e","r"," ","s","c","i","e","n","c","e",")">> >>] >>],
      [word |-> <<"o","p","e","r","a","t","o","r">>,
       mappings |-> <<
          [context |-> <<"p","r","o","g","r","a","m","m","i","n","g">>,
           terms |-> << <<"O","p","e","r","a","t","o","r"," ","(","c","o","m","p","u","t","e","r"," ","p","r","o","g","r","a","m","m","i","n","g",")">>,
                      <<"P","r","o","g","r","a","m","m","i","n","g"," ","o","p","e","r","a","t","o","r">> >>],
          [context |-> <<"d","e","f","a","u","l","t">>,
           terms |-> << <<"O","p","e","r","a","t","o","r"," ","(","c","o","m","p","u","t","e","r"," ","p","r","o","g","r","a","m","m","i","n","g",")">> >>] >>],
      [word |-> <<"t","y","p","e">>,
       mappings |-> <<
          [context |-> <<"p","r","o","g","r","a","m","m","i","n","g">>,
           terms |-> << <<"D","a","t","a"," ","t","y","p","e">>,
                      <<"T","y","p","e"," ","s","y","s","t","e","m">> >>],
          [context |-> <<"d","e","f","a","u","l","t">>,
           terms |-> << <<"D","a","t","a"," ","t","y","p","e">> >>] >>],
      [word |-> <<"c","a","s","t","i","n","g">>,
       mappings |-> <<
          [context |-> <<"p","r","o","g","r","a","m","m","i","n","g">>,
           terms |-> << <<"T","y","p","e"," ","c","o","n","v","e","r","s","i","o","n">>,
                      <<"T","y","p","e"," ","c","a","s","t","i","n","g">> >>],
          [context |-> <<"d","e","f","a","u","l","t">>,
           terms |-> << <<"T","y","p","e"," ","c","o","n","v","e","r","s","i","o","n">> >>] >>],
      [word |-> <<"a","b","s","t","r","a","c","t">>,
       mappings |-> <<
          [context |-> <<"p","r","o","g","r","a","m","m","i","n","g">>,
           terms |-> << <<"A","b","s","t","r","a","c","t"," ","t","y","p","e">>,
                      <<"A","b","s","t","r","a","c","t","i","o","n"," ","(","c","o","m","p","u","t","e","r"," ","s","c","i","e","n","c","e",")">> >>],
          [context |-> <<"d","e","f","a","u","l","t">>,
           terms |-> << <<"A","b","s","t","r","a","c","t"," ","t","y","p","e">> >>] >>],
      [word |-> <<"s","t","a","t","i","c">>,
       mappings |-> <<
          [context |-> <<"p","r","o","g","r","a","m","m","i","n","g">>,
           terms |-> << <<"S","t","a","t","i","c"," ","v","a","r","i","a","b","l","e">>,
                      <<"S","t","a","t","i","c"," ","m","e","t","h","o","d">> >>],
          [context |-> <<"d","e","f","a","u","l","t">>,
           terms |-> << <<"S","t","a","t","i","c"," ","v","a","r","i","a","b","l","e">> >>] >>],
      [word |-> <<"d","y","n","a","m","i","c">>,
       mappings |-> <<
          [context |-> <<"p","r","o","g","r","a","m","m","i","n","g">>,
           terms |-> << <<"D","y","n","a","m","i","c"," ","t","y","p","i","n","g">>,
                      <<"D","y","n","a","m","i","c"," ","p","r","o","g","r","a","m","m","i","n","g"," ","l","a","n","g","u","a","g","e">> >>],
          [context |-> <<"d","e","f","a","u","l","t">>,
           terms |-> << <<"D","y","n","a","m","i","c"," ","t","y","p","i","n","g">> >>] >>],
      [word |-> <<"p","r","i","v","a","t","e">>,
       mappings |-> <<
          [context |-> <<"p","r","o","g","r","a","m","m","i","n","g">>,
           terms |-> << <<"A","c","c","e","s","s"," ","m","o","d","i","f","i","e","r">>,
                      <<"P","r","i","v","a","t","e"," ","m","e","m","b","e","r">> >>],
          [context |-> <<"d","e","f","a","u","l","t">>,
           terms |-> << <<"A","c","c","e","s","s"," ","m","o","d","i","f","i","e","r">> >>] >>],
      [word |-> <<"p","u","b","l","i","c">>,
       mappings |-> <<
          [context |-> <<"p","r","o","g","r","a","m","m","i","n","g">>,
           terms |-> << <<"A","c","c","e","s","s"," ","m","o","d","i","f","i","e","r">>,
                      <<"P","u","b","l","i","c"," ","m","e","m","b","e","r">> >>],
          [context |-> <<"d","e","f","a","u","l","t">>,
           terms |-> << <<"A","c","c","e","s","s"," ","m","o","d","i","f","i","e","r">> >>] >>],
      [word |-> <<"p","r","o","t","e","c","t","e","d">>,
       mappings |-> <<
          [context |-> <<"p","r","o","g","r","a","m","m","i","n","g">>,
           terms |-> << <<"A","c","c","e","s","s"," ","m","o","d","i","f","i","e","r">>,
                      <<"P","r","o","t","e","c","t","e","d"," ","m","e","m","b","e","r">> >>],
          [context |-> <<"d","e","f","a","u","l","t">>,
           terms |-> << <<"A","c","c","e","s","s"," ","m","o","d","i","f","i","e","r">> >>] >>],
      [word |-> <<"f","i","n","a","l">>,
       mappings |-> <<
          [context |-> <<"p","r","o","g","r","a","m","m","i","n","g">>,
           terms |-> << <<"F","i","n","a","l"," ","(","J","a","v","a",")">>,
                      <<"C","o","n","s","t","a","n","t"," ","(","p","r","o","g","r","a","m","m","i","n","g",")">> >>],
          [context |-> <<"d","e","f","a","u","l","t">>,
           terms |-> << <<"F","i","n","a","l"," ","(","J","a","v","a",")">> >>] >>],
      [word |-> <<"c","o","n","s","t">>,
       mappings |-> <<
          [context |-> <<"p","r","o","g","r","a","m","m","i","n","g">>,
           terms |-> << <<"C","o","n","s","t","a","n","t"," ","(","p","r","o","g","r","a","m","m","i","n","g",")">>,
                      <<"C","o","n","s","t"," ","k","e","y","w","o","r","d">> >>],
          [context |-> <<"d","e","f","a","u","l","t">>,
           terms |-> << <<"C","o","n","s","t","a","n","t"," ","(","p","r","o","g","r","a","m","m","i","n","g",")">> >>] >>],
      [word |-> <<"v","o","i","d">>,
       mappings |-> <<
          [context |-> <<"p","r","o","g","r","a","m","m","i","n","g">>,
           terms |-> << <<"V","o","i","d"," ","t","y","p","e">>,
                      <<"V","o","i","d"," ","(","p","r","o","g","r","a","m","m","i","n","g",")">> >>],
          [context |-> <<"d","e","f","a","u","l","t">>,
           terms |-> << <<"V","o","i","d"," ","t","y","p","e">> >>] >>],
      [word |-> <<"n","u","l","l">>,
       mappings |-> <<
          [context |-> <<"p","r","o","g","r","a","m","m","i","n","g">>,
           terms |-> << <<"N","u","l","l"," ","p","o","i","n","t","e","r">>,
                      <<"N","u","l","l"," ","(","p","r","o","g","r","a","m","m","i","n","g",")">> >>],
          [context |-> <<"d","e","f","a","u","l","t">>,
           terms |-> << <<"N","u","l","l"," ","p","o","i","n","t","e","r">> >>] >>],
      [word |-> <<"b","a","n","k">>,
       mappings |-> <<
          [context |-> <<"f","i","n","a","n","c","e">>,
           terms |-> << <<"B","a","n","k">>,
                      <<"F","i","n","a","n","c","i","a","l"," ","i","n","s","t","i","t","u","t","i","o","n">> >>],
          [context |-> <<"g","e","o","g","r","a","p","h","y">>,
           terms |-> << <<"R","i","v","e","r"," ","b","a","n","k">>,
                      <<"S","t","r","e","a","m"," ","b","a","n","k">> >>],
          [context |-> <<"d","e","f","a","u","l","t">>,
           terms |-> << <<"B","a","n","k">> >>] >>]
    >>

\* Python keeps, of the entries a dict display writes for one key, the last.
MappedWords == { MappingEntries[i].word : i \in DOMAIN MappingEntries }

MaxOfSet(S) == CHOOSE x \in S : \A y \in S : y <= x

\* CONTEXT_SEARCH_MAPPINGS[word_lower]
MappingsOf(word_lower) ==
    MappingEntries[MaxOfSet({ i \in DOMAIN MappingEntries :
                                 MappingEntries[i].word = word_lower })]
        .mappings

\* context in mappings
InMappings(context, mappings) ==
    \E j \in DOMAIN mappings : mappings[j].context = context

\* mappings[context]
TermsOf(context, mappings) ==
    mappings[CHOOSE j \in DOMAIN mappings : mappings[j].context = context]
        .terms

DefaultContext == <<"d","e","f","a","u","l","t">>

ProgrammingLabel == <<"p","r","o","g","r","a","m","m","i","n","g">>

TechCompanyLabel == <<"t","e","c","h","_","c","o","m","p","a","n","y">>

\* The generic search terms (lines 927-943).
GenericTerms(word, context_type) ==
    IF context_type = ProgrammingLabel
    THEN << word \o <<" ","(","p","r","o","g","r","a","m","m","i","n","g",")">>,
            word \o <<" ","(","c","o","m","p","u","t","e","r"," ","s","c","i","e","n","c","e",")">>,
            word \o <<" ","(","c","o","m","p","u","t","i","n","g",")">>,
            word >>
    ELSE IF context_type = TechCompanyLabel
    THEN << word \o <<" ","I","n","c",".">>,
            word \o <<" ","(","c","o","m","p","a","n","y",")">>,
            word >>
    ELSE << word >>

SearchTermsDefaultFirst(word, context_type) ==
    LET word_lower == Strip(Lower(word))
    IN  IF word_lower \in MappedWords
        THEN LET mappings == MappingsOf(word_lower)
             IN  IF InMappings(DefaultContext, mappings)
                 THEN TermsOf(DefaultContext, mappings)
                 ELSE IF context_type # <<>>
                         /\ InMappings(context_type, mappings)
                 THEN TermsOf(context_type, mappings)
                 ELSE GenericTerms(word, context_type)
        ELSE GenericTerms(word, context_type)

\* _build_context_aware_search_terms from line 915 on, context_type being
\* the topic detected.
SearchTermsOfType(word, context_type) ==
    LET word_lower == Strip(Lower(word))
    IN  IF word_lower \in MappedWords
        THEN LET mappings == MappingsOf(word_lower)
             IN  IF context_type # <<>> /\ InMappings(context_type, mappings)
                 THEN TermsOf(context_type, mappings)
                 ELSE IF InMappings(DefaultContext, mappings)
                 THEN TermsOf(DefaultContext, mappings)
                 ELSE GenericTerms(word, context_type)
        ELSE GenericTerms(word, context_type)

\* _build_context_aware_search_terms(word, context_lower)
_build_context_aware_search_terms(word, context_lower) ==
    SearchTermsOfType(word, _detect_context_type(context_lower))

\* The summaries a lookup yields: None, or a text.
NoSummary == "None"
Summaries == {NoSummary, "summary"}

\* None, for get_wikipedia_context.
NoContext ==
    [summary |-> NoSummary, search_term |-> <<>>, is_compound |-> FALSE,
     word |-> <<>>]

\* No cache file.
EmptyCache == [k \in {} |-> NoSummary]

-----------------------------------------------------------------------------
\* Inputs.

\* The probabilities a neural scorer call may answer (tenths).
Probs == {4, 10}

\* The sentences of the requests: "", "bank cash", "Bank land cash.",
\* "bank shore cash".
Sentences ==
    { <<>>,
      <<"b","a","n","k"," ","c","a","s","h">>,
      <<"B","a","n","k"," ","l","a","n","d"," ","c","a","s","h",".">>,
      <<"b","a","n","k"," ","s","h","o","r","e"," ","c","a","s","h">> }

\* The target words a direct caller passes: "", "Bank", "cash".
Words == { <<>>, <<"B","a","n","k">>, <<"c","a","s","h">> }

\* No call remembered.
NoFirst(on) ==
    [on |-> on, recorded |-> FALSE, sentence |-> <<>>, target_word |-> <<>>,
     answers |-> <<>>, best |-> NoneSyn, combined |-> <<>>,
     cache |-> EmptyCache]

\* History: one call that returns is remembered, any one, when sessions
\* are recorded: its arguments, the neural scorer's answers, its result, and
\* the cache files there were.
Remember(s, w, answers, b, ranked) ==
    IF first.on /\ ~first.recorded
    THEN {first,
          [on |-> TRUE, recorded |-> TRUE, sentence |-> s, target_word |-> w,
           answers |-> answers, best |-> b, combined |-> ranked,
           cache |-> wiki_cache]}
    ELSE {first}

-----------------------------------------------------------------------------
\* State machine.

InitRequest ==
    /\ pc = "idle"
    /\ caller = "api"
    /\ sentence = <<>>
    /\ target_word = <<>>
    /\ candidates = <<>>
    /\ kb_scores = <<>>
    /\ max_kb = 0
    /\ top_idx = <<>>
    /\ norm_kb = <<>>
    /\ bert_scores = <<>>
    /\ bert_calls = <<>>
    /\ combined = <<>>
    /\ best = NoneSyn
    /\ wiki_called = FALSE
    /\ wiki_context = NoContext

\* No helper function is applied on its own.
\* No call of get_wikipedia_summary yet.
NoLookup ==
    /\ lpc = "idle"
    /\ search_terms = <<>>
    /\ term_i = 0
    /\ summary = NoSummary
    /\ requests = <<>>
    /\ hit = FALSE
    /\ error = FALSE
    /\ cache_error = FALSE
    /\ lookups = 0
    /\ written_for = EmptyCache
    /\ table_writes = <<>>

NoCall ==
    /\ called = ""
    /\ arg_text = <<>>
    /\ arg_word = <<>>
    /\ arg_syn = NoneSyn
    /\ ret = <<>>
    /\ NoLookup

Init ==
    /\ wn \in SenseLists(MaxSenses)
    /\ first = NoFirst(FALSE)
    /\ wikipedia_available = TRUE
    /\ wiki_cache = EmptyCache
    /\ InitRequest
    /\ NoCall

\* Mutation of HasCandidates: the guard of line 574 is gone.
HasCandidatesAlways(cands) == TRUE

\* if not candidates: (line 574)
HasCandidates(cands) == cands # <<>>

\* hybrid_predict(s, w) up to its first neural scorer call (lines 570-582),
\* or to its return when there are no candidates (line 575).
Enter(s, w, who) ==
    LET ctx_tokens == simple_tokenize(s)
        cands == Synsets(Lower(w))
        kbs == KbScores(ctx_tokens, cands)
        top == TopIdx(kbs)
    IN  /\ pc = "idle"
        /\ caller' = who
        /\ sentence' = s
        /\ target_word' = w
        /\ candidates' = cands
        /\ bert_scores' = <<>>
        /\ bert_calls' = <<>>
        /\ combined' = <<>>
        /\ best' = NoneSyn
        /\ wiki_called' = FALSE
        /\ wiki_context' = NoContext
        /\ IF HasCandidates(cands)
           THEN /\ kb_scores' = kbs
                /\ max_kb' = MaxKb(kbs)
                /\ top_idx' = top
                /\ norm_kb' = NormKb(kbs, top)
                /\ pc' = "bert"
                /\ first' = first
           ELSE /\ kb_scores' = <<>>
                /\ max_kb' = 0
                /\ top_idx' = <<>>
                /\ norm_kb' = <<>>
                /\ pc' = "returned"
                /\ first' \in Remember(s, w, <<>>, NoneSyn, <<>>)
        /\ UNCHANGED <<callVars, wn, wikipedia_available, wiki_cache>>

\* A direct call of hybrid_predict(sentence, target_word).
HybridPredict(s, w) == Enter(s, w, "api")

\* The "Analyze Meaning" button (lines 623-655): the sentence is not blank,
\* it has words, and the target is the clean form of the selected word.
AnalyzeMeaning(s, k) ==
    LET words_data == extract_words_only(s)
    IN  /\ pc = "idle"
        /\ StripNonEmpty(s)
        /\ words_data # <<>>
        /\ k \in DOMAIN words_data
        /\ Enter(s, words_data[k][2], "ui")

\* One iteration of the scorer loop (lines 586-592): the model scores the
\* gloss of the next candidate of top_idx and answers prob.
BertScore(prob) ==
    /\ pc = "bert"
    /\ Len(bert_scores) < Len(top_idx)
    /\ bert_calls' = Append(bert_calls, top_idx[Len(bert_scores) + 1])
    /\ bert_scores' = Append(bert_scores, prob)
    /\ UNCHANGED <<callVars, wn, pc, caller, sentence, target_word, candidates,
                   kb_scores, max_kb, top_idx, norm_kb, combined, best,
                   wiki_called, wiki_context, wikipedia_available,
                   wiki_cache, first>>

\* After the loop (lines 594-601): fuse, sort, take combined[0][1], return.
\* combined[0] of an empty list raises IndexError.
Fuse ==
    LET ranked == Ranked(candidates, top_idx, norm_kb, bert_scores, max_kb)
    IN  /\ pc = "bert"
        /\ Len(bert_scores) = Len(top_idx)
        /\ combined' = ranked
        /\ IF combined' = <<>>
           THEN /\ pc' = "raised"
                /\ best' = NoneSyn
                /\ first' = first
           ELSE /\ pc' = "returned"
                /\ best' = combined'[1].syn
                /\ first' \in Remember(sentence, target_word, bert_scores,
                                       best', combined')
        /\ UNCHANGED <<callVars, wn, caller, sentence, target_word, candidates,
                       kb_scores, max_kb, top_idx, norm_kb, bert_scores,
                       bert_calls, wiki_called, wiki_context,
                       wikipedia_available, wiki_cache>>

\* The locals of a finished request are gone; the cache files stay.
Cleared ==
    /\ pc' = "idle"
    /\ caller' = "api"
    /\ sentence' = <<>>
    /\ target_word' = <<>>
    /\ candidates' = <<>>
    /\ kb_scores' = <<>>
    /\ max_kb' = 0
    /\ top_idx' = <<>>
    /\ norm_kb' = <<>>
    /\ bert_scores' = <<>>
    /\ bert_calls' = <<>>
    /\ combined' = <<>>
    /\ best' = NoneSyn
    /\ wiki_called' = FALSE
    /\ wiki_context' = NoContext
    /\ UNCHANGED <<callVars, wn, wikipedia_available, wiki_cache, first>>

\* The direct caller has its result.
ApiReturn ==
    /\ pc = "returned"
    /\ caller = "api"
    /\ Cleared

\* if best is None: st.error("No word senses found for this word.")
\* (lines 659-660)
HandlerNoSense ==
    /\ pc = "returned"
    /\ caller = "ui"
    /\ best = NoneSyn
    /\ pc' = "done"
    /\ UNCHANGED <<callVars, wn, caller, sentence, target_word, candidates,
                   kb_scores,
                   max_kb, top_idx, norm_kb, bert_scores, bert_calls,
                   combined, best, wiki_called, wiki_context,
                   wikipedia_available, wiki_cache, first>>

\* get_wikipedia_summary(word, context=s) (wikipedia_knowledge.py, lines
\* 947-1016): the cache key is made of the word and the topic of the
\* context.  A cache file that exists answers the lookup; otherwise the
\* search answers `answer` (None when every term fails), and the answer is
\* stored when the file can be written (`saved`).
\* The classifier is a pure function of the context: its label is computed
\* once for each sentence of the requests.
ContextTypeOf == [s \in Sentences |-> _detect_context_type(Lower(s))]

CacheKeyFor(word, s) == _cache_key(CacheWord(word, ContextTypeOf[s]))

SummaryFor(key, answer) ==
    IF key \in DOMAIN wiki_cache THEN wiki_cache[key] ELSE answer

CacheAfter(key, answer, saved) ==
    IF key \in DOMAIN wiki_cache \/ ~saved
    THEN wiki_cache
    ELSE [k \in DOMAIN wiki_cache \cup {key} |->
             IF k = key THEN answer ELSE wiki_cache[k]]

\* compound_term if compound_term else word (line 496)
SearchTerm(compound_term, word) ==
    IF compound_term # NoCompound THEN compound_term ELSE word

\* The value get_wikipedia_context returns for a summary (lines 490-509).
ContextOf(found, compound_term, word) ==
    IF found # NoSummary
    THEN [summary |-> found, search_term |-> SearchTerm(compound_term, word),
          is_compound |-> compound_term # NoCompound, word |-> word]
    ELSE NoContext

HandlerWikipediaRanksAgain ==
    /\ pc = "returned"
    /\ caller = "ui"
    /\ best # NoneSyn
    /\ wiki_called' = TRUE
    /\ pc' = "done"
    /\ IF ~wikipedia_available
       THEN /\ wiki_context' = NoContext
            /\ wiki_cache' = wiki_cache
            /\ UNCHANGED <<combined, best>>
       ELSE LET compound_term == find_compound_term(target_word, sentence)
                key == CacheKeyFor(SearchTerm(compound_term, target_word),
                                   sentence)
            IN  \E answer \in Summaries, saved \in BOOLEAN :
                    /\ wiki_cache' = CacheAfter(key, answer, saved)
                    /\ wiki_context' = ContextOf(SummaryFor(key, answer),
                                                 compound_term, target_word)
                    /\ combined' = IF SummaryFor(key, answer) # NoSummary
                                   THEN Reverse(combined) ELSE combined
                    /\ best' = IF SummaryFor(key, answer) # NoSummary
                               THEN combined[Len(combined)].syn ELSE best
    /\ UNCHANGED <<callVars, wn, caller, sentence, target_word, candidates,
                   kb_scores,
                   max_kb, top_idx, norm_kb, bert_scores, bert_calls,
                   wikipedia_available, first>>

\* else: wiki_context = get_wikipedia_context(target_word, sentence), then
\* the analysis and the ranked list are rendered (lines 661-729).
HandlerWikipedia ==
    /\ pc = "returned"
    /\ caller = "ui"
    /\ best # NoneSyn
    /\ wiki_called' = TRUE
    /\ pc' = "done"
    /\ IF ~wikipedia_available
       THEN /\ wiki_context' = NoContext
            /\ wiki_cache' = wiki_cache
       ELSE LET compound_term == find_compound_term(target_word, sentence)
                key == CacheKeyFor(SearchTerm(compound_term, target_word),
                                   sentence)
            IN  \E answer \in Summaries, saved \in BOOLEAN :
                    /\ wiki_cache' = CacheAfter(key, answer, saved)
                    /\ wiki_context' = ContextOf(SummaryFor(key, answer),
                                                 compound_term, target_word)
    /\ UNCHANGED <<callVars, wn, caller, sentence, target_word, candidates,
                   kb_scores,
                   max_kb, top_idx, norm_kb, bert_scores, bert_calls,
                   combined, best, wikipedia_available, first>>

\* The page is shown; the next interaction reruns the script.
Rerun ==
    /\ pc = "done"
    /\ Cleared

\* The requests of a direct caller of hybrid_predict.
Next ==
    \/ \E s \in Sentences, w \in Words : HybridPredict(s, w)
    \/ \E prob \in Probs : BertScore(prob)
    \/ Fuse
    \/ ApiReturn

Spec == Init /\ [][Next]_vars

\* The application: the requests of the page, over a smaller lexical
\* resource, with one completed call of hybrid_predict remembered.
InitApp ==
    /\ wn \in SenseLists(SessionSenses)
    /\ first = NoFirst(TRUE)
    /\ wikipedia_available \in BOOLEAN
    /\ wiki_cache = EmptyCache
    /\ InitRequest
    /\ NoCall

NextApp ==
    \/ \E s \in Sentences, k \in 1..3 : AnalyzeMeaning(s, k)
    \/ \E prob \in Probs : BertScore(prob)
    \/ Fuse
    \/ HandlerNoSense
    \/ HandlerWikipedia
    \/ Rerun

SpecApp == InitApp /\ [][NextApp]_vars

-----------------------------------------------------------------------------
\* The context classifier applied on its own (specification SpecClassify).

\* The sentences have at most MaxWords words.
MaxWords == 3

\* The words of the sentences: "Bank", "account", "deposited", "cash",
\* "school", "river".
Vocabulary ==
    { <<"B","a","n","k">>, <<"a","c","c","o","u","n","t">>,
      <<"d","e","p","o","s","i","t","e","d">>, <<"c","a","s","h">>,
      <<"s","c","h","o","o","l">>, <<"r","i","v","e","r">> }

\* "I deposited money at the bank"
DepositSentence ==
    <<"I"," ","d","e","p","o","s","i","t","e","d"," ","m","o","n","e","y"," ",
      "a","t"," ","t","h","e"," ","b","a","n","k">>

\* The sequences of at most n words.
WordLists(n) == UNION { [1..m -> Vocabulary] : m \in 0..n }

\* The contexts a lookup is given.
ClassifierSentences ==
    { JoinSpace(ws) : ws \in WordLists(MaxWords) } \cup {DepositSentence}

\* The state of a program that serves no request.
NoRequest ==
    /\ wn = <<>>
    /\ first = NoFirst(FALSE)
    /\ wikipedia_available = TRUE
    /\ wiki_cache = EmptyCache
    /\ InitRequest
    /\ NoLookup

InitClassify ==
    /\ NoRequest
    /\ called = ""
    /\ arg_text \in ClassifierSentences
    /\ arg_word = <<>>
    /\ arg_syn = NoneSyn
    /\ ret = <<>>

\* context_lower = (context or "").lower(), then
\* _detect_context_type(context_lower), as get_wikipedia_summary calls it
\* (wikipedia_knowledge.py, lines 952-955).
DetectContextType ==
    /\ called = ""
    /\ called' = "_detect_context_type"
    /\ ret' = _detect_context_type(Lower(arg_text))
    /\ UNCHANGED <<requestVars, lookupVars, table_writes, arg_text, arg_word,
                   arg_syn>>

NextClassify == DetectContextType

SpecClassify == InitClassify /\ [][NextClassify]_vars

-----------------------------------------------------------------------------
\* The compound-term detector applied on its own (specification
\* SpecCompound).

\* The tokens of the sentences: "The", "food", "Food,", "bank", "banks",
\* "river".
CompoundVocabulary ==
    { <<"T","h","e">>, <<"f","o","o","d">>, <<"F","o","o","d",",">>,
      <<"b","a","n","k">>, <<"b","a","n","k","s">>, <<"r","i","v","e","r">> }

\* "I went to donate to the food bank today"
DonateSentence ==
    <<"I"," ","w","e","n","t"," ","t","o"," ","d","o","n","a","t","e"," ",
      "t","o"," ","t","h","e"," ","f","o","o","d"," ","b","a","n","k"," ",
      "t","o","d","a","y">>

\* "The bank raised interest rates"
RatesSentence ==
    <<"T","h","e"," ","b","a","n","k"," ","r","a","i","s","e","d"," ",
      "i","n","t","e","r","e","s","t"," ","r","a","t","e","s">>

\* The sentences of at most MaxWords tokens, and the two above.
CompoundSentences ==
    { JoinSpace(ws) :
        ws \in UNION { [1..m -> CompoundVocabulary] : m \in 0..MaxWords } }
        \cup {DonateSentence, RatesSentence}

\* The target words: "bank", "Bank", "ban", "tree".
CompoundWords ==
    { <<"b","a","n","k">>, <<"B","a","n","k">>, <<"b","a","n">>, <<"t","r","e","e">> }

InitCompound ==
    /\ NoRequest
    /\ called = ""
    /\ arg_text \in CompoundSentences
    /\ arg_word \in CompoundWords
    /\ arg_syn = NoneSyn
    /\ ret = <<>>

\* find_compound_term(word, sentence)
FindCompoundTerm ==
    /\ called = ""
    /\ called' = "find_compound_term"
    /\ ret' = find_compound_term(arg_word, arg_text)
    /\ UNCHANGED <<requestVars, lookupVars, table_writes, arg_text, arg_word,
                   arg_syn>>

NextCompound == FindCompoundTerm

SpecCompound == InitCompound /\ [][NextCompound]_vars

-----------------------------------------------------------------------------
\* The knowledge scorer applied on its own (specification SpecKnowledge).

\* The words of the sentences: "land", "Cash!", "shore", "slope", "bank".
KnowledgeVocabulary ==
    { <<"l","a","n","d">>, <<"C","a","s","h","!">>, <<"s","h","o","r","e">>,
      <<"s","l","o","p","e">>, <<"b","a","n","k">> }

\* The sentences of at most MaxWords words.
KnowledgeSentences ==
    { JoinSpace(ws) :
        ws \in UNION { [1..m -> KnowledgeVocabulary] : m \in 0..MaxWords } }

\* The synsets scored: g1 and g2 as above, g3 whose gloss repeats words, and
\* g0 whose gloss is empty.
ScoredSynsets == { [name |-> 1, kind |-> k] : k \in {"g0", "g1", "g2", "g3"} }

InitKnowledge ==
    /\ NoRequest
    /\ called = ""
    /\ arg_text \in KnowledgeSentences
    /\ arg_word = <<>>
    /\ arg_syn \in ScoredSynsets
    /\ ret = <<>>

\* knowledge_score(ctx_tokens, s) with ctx_tokens = simple_tokenize(sentence),
\* as hybrid_predict calls it (lines 571, 577).
KnowledgeScore ==
    /\ called = ""
    /\ called' = "knowledge_score"
    /\ ret' = knowledge_score(simple_tokenize(arg_text), arg_syn)
    /\ UNCHANGED <<requestVars, lookupVars, table_writes, arg_text, arg_word,
                   arg_syn>>

NextKnowledge == KnowledgeScore

SpecKnowledge == InitKnowledge /\ [][NextKnowledge]_vars

-----------------------------------------------------------------------------
\* The tokenizers (lines 449-460), applied to every text of at most MaxLen
\* characters over an alphabet with one character of each class.

MaxLen == 3

\* A small letter, a capital, a digit, space, tab, a full stop, the
\* underscore and a capital letter outside ASCII.
TokenAlphabet == {"a", "B", "7", " ", "\t", ".", "_", UpperAccented}

Texts == UNION { [1..n -> TokenAlphabet] : n \in 0..MaxLen }

InitTokens ==
    /\ NoRequest
    /\ called = ""
    /\ arg_text \in Texts
    /\ arg_word = <<>>
    /\ arg_syn = NoneSyn
    /\ ret = <<>>

\* simple_tokenize(text)
SimpleTokenize ==
    /\ called = ""
    /\ called' = "simple_tokenize"
    /\ ret' = simple_tokenize(arg_text)
    /\ UNCHANGED <<requestVars, lookupVars, table_writes, arg_text, arg_word,
                   arg_syn>>

\* extract_words_only(sentence)
ExtractWordsOnly ==
    /\ called = ""
    /\ called' = "extract_words_only"
    /\ ret' = extract_words_only(arg_text)
    /\ UNCHANGED <<requestVars, lookupVars, table_writes, arg_text, arg_word,
                   arg_syn>>

NextTokens == SimpleTokenize \/ ExtractWordsOnly

SpecTokens == InitTokens /\ [][NextTokens]_vars

-----------------------------------------------------------------------------
\* The search terms built for a word and a context (lines 907-943), for
\* every word of the mapping table, some words outside it, and contexts of
\* every topic.

\* Words as the callers pass them: "Bank", "Bug", "Python", "Amazon",
\* "tree", "Turtle" and the compound "food bank", besides the mapped words.
TermWords ==
    MappedWords \cup
    { <<"B","a","n","k">>,
      <<"B","u","g">>,
      <<"P","y","t","h","o","n">>,
      <<"A","m","a","z","o","n">>,
      <<"t","r","e","e">>,
      <<"T","u","r","t","l","e">>,
      <<"f","o","o","d"," ","b","a","n","k">> }

\* One keyword of each of the 37 topics, which the classifier gives that
\* topic.
TopicContexts ==
    {
      <<"c","o","d","e">>, <<"l","a","u","n","c","h","e","d">>,
      <<"a","n","i","m","a","l">>, <<"m","o","n","e","y">>, <<"a","t","e">>,
      <<"t","v">>, <<"w","r","i","s","t">>, <<"g","u","a","r","d">>,
      <<"m","o","r","n","i","n","g">>,
      <<"s","u","c","c","e","s","s","f","u","l","l","y">>,
      <<"t","e","a","r","s">>, <<"u","p","l","o","a","d">>,
      <<"l","a","w","y","e","r">>, <<"w","o","o","d">>,
      <<"f","l","o","w","e","r","s">>, <<"f","l","o","w","s">>,
      <<"t","o","y">>, <<"l","i","f","t","e","d">>, <<"f","l","e","w">>,
      <<"p","h","o","n","e">>, <<"s","e","r","v","i","c","e">>,
      <<"s","o","l","d","i","e","r","s">>, <<"w","r","o","t","e">>,
      <<"m","u","s","i","c","a","l">>, <<"r","u","p","e","e">>,
      <<"m","a","n","u","f","a","c","t","u","r","i","n","g">>,
      <<"w","a","t","e","r","e","d">>, <<"s","p","y","i","n","g">>,
      <<"b","a","l","l">>, <<"s","a","l","e","s">>, <<"t","e","n","t">>,
      <<"u","p","p","e","r"," ","c","l","a","s","s">>, <<"m","a","t","h">>,
      <<"c","r","a","w","l","i","n","g">>, <<"h","i","d","d","e","n">>,
      <<"f","a","s","h","i","o","n">>, <<"c","a","r">>
    }

\* The empty context, a context of no topic, and contexts that speak of
\* geography and of mathematics.
OtherContexts ==
    {
      <<>>, <<"z","q">>, <<"g","e","o","g","r","a","p","h","y">>,
      <<"t","h","e"," ","r","i","v","e","r"," ","b","a","n","k"," ","i","s"," ","m","u","d","d","y">>,
      <<"a","m","a","z","o","n"," ","r","i","v","e","r"," ","r","a","i","n","f","o","r","e","s","t">>,
      <<"j","a","v","a"," ","i","s","l","a","n","d">>,
      <<"a","l","g","e","b","r","a"," ","e","q","u","a","t","i","o","n">>
    }

TermContexts == TopicContexts \cup OtherContexts

\* The classifier is a pure function: its label is computed once for each
\* context.
TermTopicOf == [c \in TermContexts |-> _detect_context_type(c)]

InitTerms ==
    /\ NoRequest
    /\ called = ""
    /\ arg_text \in TermContexts
    /\ arg_word \in TermWords
    /\ arg_syn = NoneSyn
    /\ ret = <<>>

\* _build_context_aware_search_terms(word, context_lower)
BuildSearchTerms ==
    /\ called = ""
    /\ called' = "_build_context_aware_search_terms"
    /\ ret' = SearchTermsOfType(arg_word, TermTopicOf[arg_text])
    /\ UNCHANGED <<requestVars, lookupVars, table_writes, arg_text, arg_word,
                   arg_syn>>

NextTerms == BuildSearchTerms

SpecTerms == InitTerms /\ [][NextTerms]_vars

-----------------------------------------------------------------------------
\* get_wikipedia_summary (lines 947-1020) step by step: the cache, the
\* search terms, one search request and one summary request per term, the
\* save and the return.  A behaviour makes at most MaxLookups calls.

MaxLookups == 2

\* The words looked up: "high", "high_finance", "Bank".
LookupWords == { <<"h","i","g","h">>, <<"h","i","g","h","_","f","i","n","a","n","c","e">>, <<"B","a","n","k">> }

\* The contexts: none, "Money" (finance) and "code" (programming).
LookupContexts == { <<>>, <<"M","o","n","e","y">>, <<"c","o","d","e">> }

\* _detect_context_type(context_lower), computed once for each context.
LookupTopicOf == [c \in LookupContexts |-> _detect_context_type(Lower(c))]

\* _cache_key(cache_word) of a call (lines 955-956).
LookupKey(word, context) == _cache_key(CacheWord(word, LookupTopicOf[context]))

\* A cache file json.load fails on.
Unreadable == "unreadable"

CacheHitNonEmpty(key) ==
    /\ key \in DOMAIN wiki_cache
    /\ wiki_cache[key] \notin {Unreadable, NoSummary}

\* _load_cache(cache_word) is not None (lines 24-33, 959-960): the file
\* exists and json.load reads it.
CacheHit(key) ==
    /\ key \in DOMAIN wiki_cache
    /\ wiki_cache[key] # Unreadable

\* What a search request gives: an exception (timeout or transport
\* failure), a body that is not JSON, no search result, a page title.
SearchResults == {"timeout", "bad_json", "no_hit", "hit"}

\* What a summary request gives: an exception, a status other than 200, a
\* body that is not JSON, no extract, an extract.
SummaryResults == {"timeout", "not_200", "bad_json", "no_extract", "extract"}

\* What _save_cache does: writes the file, fails to open it, or fails while
\* writing, which leaves a file json.load cannot read.
SaveResults == {"written", "failed", "truncated"}

TermListWritesPopped(word, terms, i) ==
    IF Strip(Lower(word)) \in MappedWords
    THEN << [word |-> Strip(Lower(word)),
             terms |-> SubSeq(terms, i + 1, Len(terms))] >>
    ELSE <<>>

\* What the call assigns in the list it got from
\* _build_context_aware_search_terms, which is the table's own list when it
\* comes from the table (lines 921, 925): nothing.  search_terms is bound
\* (lines 965-967) and iterated (line 977), the keyword lists are iterated
\* by the classifier (lines 817-857); no element is assigned or removed.
TermListWrites(word, terms, i) == <<>>

LoopAfterNoBreak(result, i, n) ==
    IF i < n THEN "search" ELSE "save"

LoopAfterPropagate(result, i, n) ==
    IF result \in {"timeout", "bad_json"} THEN "abort"
    ELSE IF result = "extract" THEN "save"
    ELSE IF i < n THEN "search"
    ELSE "save"

\* Where the loop over search_terms goes after term i of n: to the save on
\* break (an extract) and when the terms are used up, else to the next term
\* (continue, and except Exception: continue); "abort" is the outer except
\* clause.
LoopAfter(result, i, n) ==
    IF result = "extract" THEN "save"
    ELSE IF i < n THEN "search"
    ELSE "save"

\* The variables of a request that a lookup leaves alone.
rankingVars ==
    <<wn, pc, caller, sentence, target_word, candidates, kb_scores, max_kb,
      top_idx, norm_kb, bert_scores, bert_calls, combined, best,
      wiki_called, wiki_context, wikipedia_available, first, arg_syn>>

InitLookup ==
    /\ NoRequest
    /\ called = ""
    /\ arg_text = <<>>
    /\ arg_word = <<>>
    /\ arg_syn = NoneSyn
    /\ ret = <<>>

\* get_wikipedia_summary(word, context=context) up to the loop (lines
\* 947-976): a cache hit returns the stored summary; otherwise the search
\* terms are built.  ok is FALSE when that raises.
GetWikipediaSummary(word, context, ok) ==
    /\ lpc \in {"idle", "done"}
    /\ lookups < MaxLookups
    /\ lookups' = lookups + 1
    /\ called' = "get_wikipedia_summary"
    /\ arg_word' = word
    /\ arg_text' = context
    /\ requests' = <<>>
    /\ summary' = NoSummary
    /\ LET key == LookupKey(word, context)
       IN  IF CacheHit(key)
           THEN /\ hit' = TRUE
                /\ error' = FALSE
                /\ cache_error' = FALSE
                /\ search_terms' = <<>>
                /\ term_i' = 0
                /\ ret' = wiki_cache[key]
                /\ lpc' = "done"
           ELSE /\ hit' = FALSE
                /\ error' = ~ok
                /\ cache_error' = (key \in DOMAIN wiki_cache)
                /\ search_terms' =
                       IF ok
                       THEN SearchTermsOfType(word, LookupTopicOf[context])
                       ELSE <<>>
                /\ term_i' = IF ok THEN 1 ELSE 0
                /\ ret' = IF ok THEN <<>> ELSE NoSummary
                /\ lpc' = IF ok THEN "search" ELSE "done"
    /\ UNCHANGED <<rankingVars, wiki_cache, written_for, table_writes>>

\* The position after a request on the term at term_i.
Proceed(result) ==
    LET to == LoopAfter(result, term_i, Len(search_terms))
    IN  /\ lpc' = IF to = "abort" THEN "done" ELSE to
        /\ term_i' = IF to = "search" THEN term_i + 1 ELSE term_i
        /\ error' = (to = "abort")
        /\ ret' = IF to = "abort" THEN NoSummary ELSE ret

\* The search request for the term (lines 979-996).
SearchRequest(result) ==
    /\ lpc = "search"
    /\ requests' = Append(requests, [term |-> search_terms[term_i],
                                     step |-> "search", usable |-> FALSE])
    /\ IF result = "hit"
       THEN /\ lpc' = "summary"
            /\ UNCHANGED <<term_i, error, ret>>
       ELSE Proceed(result)
    /\ table_writes' =
           table_writes \o TermListWrites(arg_word, search_terms, term_i)
    /\ UNCHANGED <<rankingVars, wiki_cache, written_for, called, arg_text,
                   arg_word, search_terms, summary, hit, cache_error,
                   lookups>>

\* The summary request for the page found (lines 998-1011).
SummaryRequest(result) ==
    /\ lpc = "summary"
    /\ requests' = Append(requests, [term |-> search_terms[term_i],
                                     step |-> "summary",
                                     usable |-> result = "extract"])
    /\ summary' = IF result = "extract" THEN "summary" ELSE summary
    /\ Proceed(result)
    /\ UNCHANGED <<rankingVars, wiki_cache, written_for, called, arg_text,
                   arg_word, search_terms, hit, cache_error, lookups,
                   table_writes>>

\* _save_cache(cache_word, {'summary': summary}); return summary (lines
\* 1015-1017, 35-42).
SaveAndReturn(result) ==
    /\ lpc = "save"
    /\ lpc' = "done"
    /\ ret' = summary
    /\ cache_error' = (cache_error \/ result # "written")
    /\ LET key == LookupKey(arg_word, arg_text)
           Store(cache, value) ==
               [k \in DOMAIN cache \cup {key} |->
                   IF k = key THEN value ELSE cache[k]]
       IN  /\ wiki_cache' =
                  CASE result = "written" -> Store(wiki_cache, summary)
                    [] result = "truncated" -> Store(wiki_cache, Unreadable)
                    [] OTHER -> wiki_cache
           /\ written_for' =
                  IF result = "written"
                  THEN Store(written_for,
                             [word |-> arg_word,
                              topic |-> LookupTopicOf[arg_text]])
                  ELSE written_for
    /\ UNCHANGED <<rankingVars, called, arg_text, arg_word, search_terms,
                   term_i, summary, requests, hit, error, lookups,
                   table_writes>>

NextLookup ==
    \/ \E word \in LookupWords, context \in LookupContexts, ok \in BOOLEAN :
           GetWikipediaSummary(word, context, ok)
    \/ \E result \in SearchResults : SearchRequest(result)
    \/ \E result \in SummaryResults : SummaryRequest(result)
    \/ \E result \in SaveResults : SaveAndReturn(result)

SpecLookup == InitLookup /\ [][NextLookup]_vars

-----------------------------------------------------------------------------
\* Properties of the ranking (specification Spec).

\* Position of a candidate in a ranked list.
PosOf(list, syn) == CHOOSE p \in DOMAIN list : list[p].syn = syn

\* Position in top_idx of the candidate of a ranked entry.
TopPos(syn) == CHOOSE k \in DOMAIN top_idx : candidates[top_idx[k]] = syn

\* Candidate i precedes candidate j in the order of step 1: knowledge score
\* descending, then resource order.
Precedes(i, j) ==
    \/ kb_scores[i] > kb_scores[j]
    \/ (kb_scores[i] = kb_scores[j] /\ i < j)

\* C1: for a non-empty candidate list the ranked list is in descending order
\* of fused score, each fused score is 0.6 * neural + 0.4 * norm_kb of its
\* entry (numerators over 100 * KbDen), and best is the candidate of the
\* first entry, whose fused score is the maximum.
C1_RankedDescending ==
    (pc = "returned" /\ candidates # <<>>) =>
        /\ combined # <<>>
        /\ \A k \in DOMAIN combined :
               /\ combined[k].hybrid =
                      6 * combined[k].nn * KbDen(max_kb) + 4 * 10 * combined[k].kb
               /\ combined[1].hybrid >= combined[k].hybrid
               /\ k < Len(combined) =>
                      combined[k].hybrid >= combined[k + 1].hybrid
        /\ best = combined[1].syn

\* C1 witness: a returned list of at least three entries with a strict
\* descent, whose first entry is not the first candidate of the top-K order.
C1_Witness ==
    /\ pc = "returned"
    /\ Len(combined) >= 3
    /\ combined[1].hybrid > combined[Len(combined)].hybrid
    /\ best # candidates[top_idx[1]]

\* C2: top_idx holds min(K, n) distinct candidates in the order of step 1
\* (knowledge score descending, ties in resource order), and every candidate
\* left out comes after every candidate taken in that order.
C2_TopKByKnowledge ==
    (pc \in {"bert", "returned"}) =>
        /\ Len(top_idx) = Min(6, Len(candidates))
        /\ \A k \in DOMAIN top_idx : top_idx[k] \in DOMAIN candidates
        /\ \A k \in DOMAIN top_idx :
               k < Len(top_idx) => Precedes(top_idx[k], top_idx[k + 1])
        /\ \A j \in DOMAIN candidates \ Range(top_idx) :
               \A i \in Range(top_idx) : Precedes(i, j)

\* C2 witness: more than K candidates, the one cut off has the same knowledge
\* score as a later-listed one taken, and a candidate taken is listed after
\* one cut off.
C2_Witness ==
    /\ pc = "bert"
    /\ Len(candidates) > TOP_K
    /\ \E j \in DOMAIN candidates \ Range(top_idx) :
           /\ \E i \in Range(top_idx) : kb_scores[i] = kb_scores[j] /\ i < j
           /\ \E i \in Range(top_idx) : kb_scores[i] > kb_scores[j] /\ j < i

\* C3: two entries of the ranked list with equal fused scores are in the
\* order they had in top_idx.
C3_StableTies ==
    (pc = "returned") =>
        \A p, q \in DOMAIN combined :
            (p < q /\ combined[p].hybrid = combined[q].hybrid) =>
                TopPos(combined[p].syn) < TopPos(combined[q].syn)

\* C3 witness: a ranked list that the sort has reordered and that holds two
\* entries of equal fused score which are not neighbours in top_idx.
C3_Witness ==
    /\ pc = "returned"
    /\ combined # <<>>
    /\ best # candidates[top_idx[1]]
    /\ \E p, q \in DOMAIN combined :
           /\ p < q
           /\ combined[p].hybrid = combined[q].hybrid
           /\ TopPos(combined[q].syn) > TopPos(combined[p].syn) + 1

\* C4: the neural scorer is invoked at most K times, each time for a
\* different candidate that fewer than K candidates precede in the order of
\* step 1; a returned ranked list has exactly min(6, n) entries, one per
\* invocation.
C4_BoundedScorer ==
    /\ Len(bert_calls) <= 6
    /\ \A k, l \in DOMAIN bert_calls : k # l => bert_calls[k] # bert_calls[l]
    /\ \A k \in DOMAIN bert_calls :
           /\ bert_calls[k] \in DOMAIN candidates
           /\ Cardinality({j \in DOMAIN candidates :
                              Precedes(j, bert_calls[k])}) < 6
    /\ (pc = "returned") =>
           /\ Len(combined) = Min(6, Len(candidates))
           /\ Len(bert_calls) = Len(combined)
           /\ {combined[k].syn : k \in DOMAIN combined} =
                  {candidates[bert_calls[k]] : k \in DOMAIN bert_calls}

\* C4 witness: a request with more than K candidates has returned.
C4_Witness ==
    /\ pc = "returned"
    /\ Len(candidates) > TOP_K
    /\ Len(bert_calls) = TOP_K

-----------------------------------------------------------------------------
\* Properties of requests without candidates.

\* C5: a request whose word has no candidates returns (None, []) and never
\* raises; no knowledge score and no neural score is computed for it, and
\* the handler makes no Wikipedia lookup for it (specification SpecApp).
C5_NoCandidatesSkipsAll ==
    /\ pc # "raised"
    /\ (pc # "idle" /\ candidates = <<>>) =>
           /\ pc \in {"returned", "done"}
           /\ best = NoneSyn
           /\ combined = <<>>
           /\ kb_scores = <<>>
           /\ bert_scores = <<>>
           /\ bert_calls = <<>>
           /\ ~wiki_called
           /\ wiki_context = NoContext

\* C5 witness: the handler has finished a request for a word of the sentence
\* that the resource does not know, while it knows senses of "bank".
C5_Witness ==
    /\ pc = "done"
    /\ caller = "ui"
    /\ wn # <<>>
    /\ target_word # <<>>
    /\ candidates = <<>>
    /\ best = NoneSyn

\* C6: hybrid_predict with an empty sentence or an empty target word returns
\* (None, []) and has invoked no scorer (specification Spec).
C6_EmptyInputIsNoCandidates ==
    (pc = "returned" /\ (sentence = <<>> \/ target_word = <<>>)) =>
        /\ best = NoneSyn
        /\ combined = <<>>
        /\ kb_scores = <<>>
        /\ bert_calls = <<>>

-----------------------------------------------------------------------------
\* Properties of the scores.

\* C7: in every entry of the ranked list the normalised knowledge score is
\* in [0,1) and the fused score in [0,1]; the denominator max_kb + 1e-6 is
\* positive, and when every raw knowledge score is 0 every normalised score
\* is 0.
C7_ScoreRanges ==
    (pc = "returned") =>
        /\ KbDen(max_kb) > 0
        /\ \A k \in DOMAIN combined :
               /\ combined[k].nn \in 0..10
               /\ 0 <= combined[k].kb
               /\ combined[k].kb < KbDen(max_kb)
               /\ 0 <= combined[k].hybrid
               /\ combined[k].hybrid <= 10 * 10 * KbDen(max_kb)
        /\ (\A i \in DOMAIN kb_scores : kb_scores[i] = 0) =>
               \A k \in DOMAIN combined : combined[k].kb = 0

\* C7 witness: a ranked list holding the candidate of the highest knowledge
\* score with neural score 1 and a candidate of knowledge score 0.
C7_Witness ==
    /\ pc = "returned"
    /\ max_kb > 0
    /\ \E k \in DOMAIN combined :
           combined[k].kb = max_kb * EpsInv /\ combined[k].nn = Unit
    /\ \E k \in DOMAIN combined : combined[k].kb = 0

\* C7, the case of no overlap at all: candidates were ranked with every raw
\* knowledge score 0.
C7_WitnessAllZero ==
    /\ pc = "returned"
    /\ Len(combined) >= 2
    /\ \A i \in DOMAIN kb_scores : kb_scores[i] = 0

\* C8 as claimed: the knowledge component of every ranked entry is the raw
\* overlap count knowledge_score(sentence tokens, candidate).
C8_KnowledgeIsRawCount ==
    (pc = "returned") =>
        \A k \in DOMAIN combined :
            combined[k].kb =
                knowledge_score(simple_tokenize(sentence), combined[k].syn)
                    * KbDen(max_kb)

\* The neural scores a candidate's score may be raised to (tenths).
RaisedProbs == {5, 7, 10}

\* The ranked list of the request when the neural score of the k-th
\* candidate of top_idx is p, everything else as it was.
RankedWith(k, p) ==
    Ranked(candidates, top_idx, norm_kb, [bert_scores EXCEPT ![k] = p], max_kb)

\* C9: raising the neural score of one top-K candidate, all else fixed, never
\* puts it behind a candidate it was ranked before.
C9_FusionMonotonic ==
    (pc = "returned") =>
        \A k \in DOMAIN top_idx : \A p \in RaisedProbs :
            p > bert_scores[k] =>
                LET alt == RankedWith(k, p)
                    c == candidates[top_idx[k]]
                IN  \A q \in DOMAIN combined :
                        PosOf(combined, c) < q =>
                            PosOf(alt, c) < PosOf(alt, combined[q].syn)

\* C9 witness: raising one neural score moves its candidate to an earlier
\* position of the ranked list.
C9_Witness ==
    /\ pc = "returned"
    /\ \E k \in DOMAIN top_idx : \E p \in RaisedProbs :
           /\ p > bert_scores[k]
           /\ PosOf(RankedWith(k, p), candidates[top_idx[k]])
                  < PosOf(combined, candidates[top_idx[k]])

-----------------------------------------------------------------------------
\* Determinism (specification SpecApp).

-----------------------------------------------------------------------------
\* The neural scorer's preference (specification Spec).

\* C11, as claimed: in a returned ranked list an entry of higher neural
\* score than another stands before it, so the sense the neural scorer
\* favours over every other is the best sense.
C11_NeuralFavouriteFirst ==
    (pc = "returned") =>
        \A a, b \in DOMAIN combined :
            combined[a].nn > combined[b].nn => a < b

\* C11, amended: an entry of higher neural score than another and of no
\* lower knowledge score stands before it; an entry so favoured over every
\* other entry is the best sense.
C11_FavouredAndNoLessKnown ==
    (pc = "returned") =>
        /\ \A a, b \in DOMAIN combined :
               (combined[a].nn > combined[b].nn
                    /\ combined[a].kb >= combined[b].kb) => a < b
        /\ \A a \in DOMAIN combined :
               (\A b \in DOMAIN combined \ {a} :
                    combined[a].nn > combined[b].nn
                        /\ combined[a].kb >= combined[b].kb)
                   => best = combined[a].syn

\* C11 witness: the g2 sense ("land", "Cash!") of higher neural score and
\* equal knowledge score is best, before a g1 sense (slope, shore) that
\* precedes it in the resource and in top_idx.
C11_Witness ==
    /\ pc = "returned"
    /\ Len(combined) >= 2
    /\ best.kind = "g2"
    /\ \E b \in DOMAIN combined :
           /\ b > 1
           /\ combined[b].syn.kind = "g1"
           /\ combined[1].nn > combined[b].nn
           /\ combined[1].kb = combined[b].kb
           /\ combined[1].kb > 0
           /\ TopPos(combined[b].syn) < TopPos(combined[1].syn)

-----------------------------------------------------------------------------
\* Properties of the context classifier (specification SpecClassify).

\* The substrings of a text.
Substrings(text) ==
    { SubSeq(text, i, j) : i \in 1..(Len(text) + 1), j \in 0..Len(text) }

\* For every topic, the number of its phrases among a set of strings.
PhraseCounts(subs) ==
    [t \in DOMAIN Topics |->
        Cardinality({k \in DOMAIN Topics[t].keywords :
                        Topics[t].keywords[k] \in subs})]

\* The largest of the counts.
TopCount(counts) ==
    CHOOSE m \in Range(counts) : \A t \in DOMAIN counts : counts[t] <= m

\* The topics of a label.
TopicsOf(label) == {t \in DOMAIN Topics : Topics[t].label = label}

FinanceLabel == <<"f","i","n","a","n","c","e">>

\* C12: the score of every topic is the number of its phrases that are
\* substrings of the lowercased sentence; the label returned is empty
\* exactly when the largest score is 0, and otherwise it is the label of a
\* topic of the largest score.
C12_ScoreIsSubstringCount ==
    (called = "_detect_context_type") =>
        LET context_lower == Lower(arg_text)
            counts == PhraseCounts(Substrings(context_lower))
        IN  /\ \A t \in DOMAIN Topics :
                   KeywordScore(Topics[t].keywords, context_lower) = counts[t]
            /\ (ret = <<>>) <=> (TopCount(counts) = 0)
            /\ ret # <<>> =>
                   \E t \in TopicsOf(ret) : counts[t] = TopCount(counts)

\* C12 witness: the topic returned has a phrase of two words in the
\* sentence ("bank account") and a phrase inside a longer word ("deposit"
\* in "deposited").
C12_Witness ==
    /\ called = "_detect_context_type"
    /\ ret # <<>>
    /\ LET context_lower == Lower(arg_text)
           subs == Substrings(context_lower)
           tokens == Range(Split(context_lower))
       IN  \E t \in TopicsOf(ret) :
               /\ \E k \in DOMAIN Topics[t].keywords :
                      /\ Topics[t].keywords[k] \in subs
                      /\ " " \in Range(Topics[t].keywords[k])
               /\ \E k \in DOMAIN Topics[t].keywords :
                      /\ Topics[t].keywords[k] \in subs
                      /\ " " \notin Range(Topics[t].keywords[k])
                      /\ Topics[t].keywords[k] \notin tokens

\* A sentence of no phrase at all gets the empty label.
C12_WitnessNone ==
    /\ called = "_detect_context_type"
    /\ arg_text # <<>>
    /\ ret = <<>>

\* The catalogs in the order of their declarations (wikipedia_knowledge.py,
\* lines 49-389).
DeclaredCatalogs ==
    <<
      PROGRAMMING_KEYWORDS, TECH_COMPANY_KEYWORDS, BIOLOGY_KEYWORDS,
      FINANCE_KEYWORDS, FOOD_KEYWORDS, ENTERTAINMENT_KEYWORDS,
      TIMEPIECE_KEYWORDS, OBSERVATION_KEYWORDS, FITNESS_KEYWORDS,
      BUSINESS_KEYWORDS, EMOTION_KEYWORDS, COMPUTER_KEYWORDS, LEGAL_KEYWORDS,
      TOOLS_KEYWORDS, SEASON_KEYWORDS, WATER_KEYWORDS, MECHANICAL_KEYWORDS,
      CONSTRUCTION_KEYWORDS, BIRD_KEYWORDS, ELECTRICAL_KEYWORDS,
      PAYMENT_KEYWORDS, MILITARY_KEYWORDS, WRITING_KEYWORDS, MUSIC_KEYWORDS,
      EDUCATION_KEYWORDS, CURRENCY_KEYWORDS, INDUSTRIAL_KEYWORDS,
      BOTANY_KEYWORDS, SPY_KEYWORDS, SPORTS_KEYWORDS, SALES_KEYWORDS,
      TERRAIN_KEYWORDS, SOCIAL_KEYWORDS, INSECT_KEYWORDS,
      SURVEILLANCE_KEYWORDS, FASHION_KEYWORDS, PRODUCT_KEYWORDS
    >>

\* The place of a topic's catalog among the declarations.
DeclaredAt(t) ==
    CHOOSE d \in DOMAIN DeclaredCatalogs :
        DeclaredCatalogs[d] = Topics[t].keywords

\* C13, as claimed: of the topics that share the largest nonzero score, the
\* one whose catalog is declared first is returned.
C13_FirstDeclaredWins ==
    (called = "_detect_context_type" /\ ret # <<>>) =>
        LET counts == PhraseCounts(Substrings(Lower(arg_text)))
        IN  \A r \in TopicsOf(ret) : \A t \in DOMAIN Topics :
                counts[t] = TopCount(counts) => DeclaredAt(r) <= DeclaredAt(t)

\* C13, amended: of the topics that share the largest nonzero score, the one
\* listed first in the scores list of _detect_context_type (lines 860-898)
\* is returned.
C13_FirstListedWins ==
    (called = "_detect_context_type" /\ ret # <<>>) =>
        LET counts == PhraseCounts(Substrings(Lower(arg_text)))
        IN  \A r \in TopicsOf(ret) : \A t \in DOMAIN Topics :
                counts[t] = TopCount(counts) => r <= t

\* C13 witness: two topics share the largest score, which is not 0, and the
\* one returned is listed first but declared second.
C13_Witness ==
    /\ called = "_detect_context_type"
    /\ ret # <<>>
    /\ LET counts == PhraseCounts(Substrings(Lower(arg_text)))
       IN  \E r \in TopicsOf(ret) : \E t \in DOMAIN Topics :
               /\ counts[t] = TopCount(counts)
               /\ r < t
               /\ DeclaredAt(t) < DeclaredAt(r)

\* C14: for "I deposited money at the bank", lowercased, the score of the
\* finance topic is greater than the score of every other topic, and the
\* label returned is finance.
C14_DepositIsFinance ==
    (called = "_detect_context_type" /\ arg_text = DepositSentence) =>
        /\ ret = FinanceLabel
        /\ \A f \in TopicsOf(FinanceLabel) : \A t \in DOMAIN Topics \ {f} :
               KeywordScore(Topics[f].keywords, Lower(arg_text))
                   > KeywordScore(Topics[t].keywords, Lower(arg_text))

\* C14 witness: the sentence is classified as finance while another topic
\* has a score that is not 0.
C14_Witness ==
    /\ called = "_detect_context_type"
    /\ arg_text = DepositSentence
    /\ ret = FinanceLabel
    /\ \E t \in DOMAIN Topics \ TopicsOf(FinanceLabel) :
           KeywordScore(Topics[t].keywords, Lower(arg_text)) > 0

-----------------------------------------------------------------------------
\* Properties of the compound-term detector (specification SpecCompound).

\* A token without its characters that are not lowercase letters.
LettersOf(token) == SelectSeq(token, LAMBDA c : c \in Range(LowerLetters))

\* The lowercase whitespace tokens of the sentence of the call.
ArgTokens == Split(Lower(arg_text))

\* p is the located position of the word of the call: the first token equal
\* to it, else the first token that contains it, else 0.
LocatedAt(p) ==
    LET w == Lower(arg_word)
        Equal(i) == ArgTokens[i] = w
        Holds(i) == w \in Substrings(ArgTokens[i])
    IN  IF \E i \in DOMAIN ArgTokens : Equal(i)
        THEN /\ p \in DOMAIN ArgTokens
             /\ Equal(p)
             /\ \A i \in 1..(p - 1) : ~Equal(i)
        ELSE IF \E i \in DOMAIN ArgTokens : Holds(i)
        THEN /\ p \in DOMAIN ArgTokens
             /\ Holds(p)
             /\ \A i \in 1..(p - 1) : ~Holds(i)
        ELSE p = 0

\* C15: find_compound_term returns none, or a lowercase phrase made of the
\* letters of a token, a space and the lowercase word, where the word is in
\* the next token; the phrase is in the allow-list of known compounds.
C15_OnlyKnownCompounds ==
    (called = "find_compound_term") =>
        \/ ret = NoCompound
        \/ /\ ret \in Range(known_compounds)
           /\ ret = Lower(ret)
           /\ \E i \in 2..Len(ArgTokens) :
                  /\ ret = LettersOf(ArgTokens[i - 1]) \o <<" ">>
                               \o Lower(arg_word)
                  /\ Lower(arg_word) \in Substrings(ArgTokens[i])

\* C15 witness: a compound is returned whose first word stood in the
\* sentence with a capital and a comma.
C15_Witness ==
    /\ called = "find_compound_term"
    /\ ret \in Range(known_compounds)
    /\ \E i \in 2..Len(ArgTokens) :
           /\ LocatedAt(i)
           /\ LettersOf(ArgTokens[i - 1]) # Split(arg_text)[i - 1]

\* A phrase that is not in the allow-list and whose first word is no stop
\* word is not returned.
C15_WitnessRejected ==
    /\ called = "find_compound_term"
    /\ ret = NoCompound
    /\ \E i \in 2..Len(ArgTokens) :
           /\ LocatedAt(i)
           /\ LettersOf(ArgTokens[i - 1]) \notin Range(skip_words)

\* C16: find_compound_term returns none when the located position is the
\* first token, when the word is in no token, and when the token before the
\* located position, lowercase and without its non-letters, is a stop word.
C16_NoneCases ==
    (called = "find_compound_term") =>
        \A p \in 0..Len(ArgTokens) :
            ( /\ LocatedAt(p)
              /\ \/ p <= 1
                 \/ LettersOf(ArgTokens[p - 1]) \in Range(skip_words) )
                => ret = NoCompound

\* C16 witness: "bank" in "The bank raised interest rates" gives none.
C16_Witness ==
    /\ called = "find_compound_term"
    /\ arg_text = RatesSentence
    /\ arg_word = <<"b","a","n","k">>
    /\ LocatedAt(2)
    /\ LettersOf(ArgTokens[1]) \in Range(skip_words)
    /\ ret = NoCompound

\* The word is the first token, and a compound of the allow-list could be
\* made with the last token.
C16_WitnessFirstToken ==
    /\ called = "find_compound_term"
    /\ LocatedAt(1)
    /\ Len(ArgTokens) > 1
    /\ LettersOf(ArgTokens[Len(ArgTokens)]) \o <<" ">> \o Lower(arg_word)
           \in Range(known_compounds)
    /\ ret = NoCompound

\* C17: when the word is a token of the sentence and the token before it
\* forms with it a compound of the allow-list, that compound is returned,
\* wherever else the word occurs.
C17_CompoundFound ==
    (called = "find_compound_term") =>
        \A i \in 2..Len(ArgTokens) :
            ( /\ ArgTokens[i] = Lower(arg_word)
              /\ ArgTokens[i - 1] \o <<" ">> \o Lower(arg_word)
                     \in Range(known_compounds) )
                => ret = ArgTokens[i - 1] \o <<" ">> \o Lower(arg_word)

-----------------------------------------------------------------------------
\* Properties of the knowledge scorer (specification SpecKnowledge).

\* The words of a text: its maximal runs of letters and digits, lowercase.
WordsIn(text) ==
    LET low == Lower(text)
        IsAlnum(k) == low[k] \in Range(LowerLetters) \cup Digits
        Runs == { r \in (DOMAIN low) \X (DOMAIN low) :
                    /\ r[1] <= r[2]
                    /\ \A k \in r[1]..r[2] : IsAlnum(k)
                    /\ r[1] > 1 => ~IsAlnum(r[1] - 1)
                    /\ r[2] < Len(low) => ~IsAlnum(r[2] + 1) }
    IN  { SubSeq(low, r[1], r[2]) : r \in Runs }

\* The words of the enriched gloss: of the definition, of every example and
\* of the definitions of the first two hypernyms.
GlossWords(syn) ==
    WordsIn(Definition(syn))
        \cup UNION { WordsIn(Examples(syn)[i]) : i \in DOMAIN Examples(syn) }
        \cup UNION { WordsIn(Definition(Hypernyms(syn)[i])) :
                        i \in DOMAIN Hypernyms(syn) \cap 1..2 }

\* C18: knowledge_score is the number of words that the sentence and the
\* enriched gloss share, a natural number that is 0 when they share none,
\* and saying a word of the sentence once more does not change it.
C18_SetIntersection ==
    (called = "knowledge_score") =>
        LET context_tokens == simple_tokenize(arg_text)
            shared == WordsIn(arg_text) \cap GlossWords(arg_syn)
        IN  /\ ret \in Nat
            /\ ret = Cardinality(shared)
            /\ shared = {} => ret = 0
            /\ \A i \in DOMAIN context_tokens :
                   knowledge_score(Append(context_tokens, context_tokens[i]),
                                   arg_syn) = ret

\* C18 witness: a word of the gloss is twice in the sentence, the gloss has
\* a word twice, and two words are shared.
C18_Witness ==
    /\ called = "knowledge_score"
    /\ ret = 2
    /\ LET context_tokens == simple_tokenize(arg_text)
           gloss_tokens == simple_tokenize(EnrichedGloss(arg_syn))
       IN  /\ \E i, j \in DOMAIN context_tokens :
                  /\ i # j
                  /\ context_tokens[i] = context_tokens[j]
                  /\ context_tokens[i] \in GlossWords(arg_syn)
           /\ Len(gloss_tokens) > Cardinality(Range(gloss_tokens))

\* The definition of the third hypernym ("cash") is not in the gloss.
C18_WitnessThirdHypernym ==
    /\ called = "knowledge_score"
    /\ Len(Hypernyms(arg_syn)) > 2
    /\ WordsIn(Definition(Hypernyms(arg_syn)[3])) \subseteq WordsIn(arg_text)
    /\ ret = Cardinality(WordsIn(arg_text) \cap GlossWords(arg_syn))
    /\ ret > 0

-----------------------------------------------------------------------------
\* C19: simple_tokenize answers every text; each of its tokens is non-empty
\* and made of the letters a-z and the digits 0-9 only; the tokens are, from
\* left to right, the maximal runs of letters and digits of the lowercased
\* text; and a text without any letter a-z/A-Z or digit (the empty text, or
\* punctuation and whitespace only) gives the empty sequence.

\* The maximal runs of a-z and 0-9 in a text, as <<first, last>> positions.
AlnumRuns(low) ==
    LET IsAlnum(k) == low[k] \in LowerLetterChars \cup Digits
    IN  { r \in (DOMAIN low) \X (DOMAIN low) :
            /\ r[1] <= r[2]
            /\ \A k \in r[1]..r[2] : IsAlnum(k)
            /\ r[1] > 1 => ~IsAlnum(r[1] - 1)
            /\ r[2] < Len(low) => ~IsAlnum(r[2] + 1) }

C19_LowercaseAlnumTokens ==
    (called = "simple_tokenize") =>
        LET low == Lower(arg_text)
            runs == AlnumRuns(low)
            Before(r) == Cardinality({ q \in runs : q[1] < r[1] })
        IN  /\ DOMAIN ret = 1..Len(ret)
            /\ \A i \in DOMAIN ret :
                   /\ ret[i] # <<>>
                   /\ \A j \in DOMAIN ret[i] :
                          ret[i][j] \in LowerLetterChars \cup Digits
            /\ Len(ret) = Cardinality(runs)
            /\ \A r \in runs : ret[Before(r) + 1] = SubSeq(low, r[1], r[2])
            /\ (\A k \in DOMAIN arg_text :
                    arg_text[k] \notin
                        LowerLetterChars \cup UpperLetterChars \cup Digits)
                   => ret = <<>>

\* A text with a capital, a full stop and a digit gave two tokens in order.
C19_Witness ==
    /\ called = "simple_tokenize"
    /\ arg_text = <<"B", ".", "7">>
    /\ ret = << <<"b">>, <<"7">> >>

\* Punctuation and whitespace only gave no token.
C19_WitnessEmpty ==
    /\ called = "simple_tokenize"
    /\ arg_text = <<".", "\t", "_">>
    /\ ret = <<>>

-----------------------------------------------------------------------------
\* C20: extract_words_only returns, in sentence order, one triple
\* (position, clean_word, original_token) for each whitespace-delimited
\* token whose form without punctuation is non-empty: position is the
\* token's 0-based index among all whitespace tokens, original_token is the
\* token unchanged, and clean_word is never empty and contains no
\* punctuation character.

\* The punctuation characters of the alphabet (string.punctuation has both).
PunctuationChars == {".", "_"}

NotPunctuation(c) == c \notin PunctuationChars

\* A token without its punctuation.
Unpunctuated(token) == SelectSeq(token, NotPunctuation)

C20_TriplesWithoutPunctuation ==
    (called = "extract_words_only") =>
        LET tokens == Split(arg_text)
            kept == { i \in DOMAIN tokens : Unpunctuated(tokens[i]) # <<>> }
        IN  /\ Len(ret) = Cardinality(kept)
            /\ \A k \in DOMAIN ret :
                   /\ ret[k][1] + 1 \in kept
                   /\ ret[k][3] = tokens[ret[k][1] + 1]
                   /\ ret[k][2] # <<>>
                   /\ \A j \in DOMAIN ret[k][2] :
                          ret[k][2][j] \notin PunctuationChars
            /\ \A k \in DOMAIN ret : \A l \in DOMAIN ret :
                   k < l => ret[k][1] < ret[l][1]

-----------------------------------------------------------------------------
\* C21: _build_context_aware_search_terms answers, for every word and topic,
\* (1) the table's entry for the lowercased word and the topic if there is
\* one, (2) otherwise the word's 'default' entry if there is one,
\* (3) otherwise the four generic variants for topic 'programming' and the
\* three for topic 'tech_company', (4) otherwise the word alone; the answer
\* is never empty.

\* The entries the table holds for a word and a context: one or none.
EntriesFor(word_lower, context) ==
    IF word_lower \notin MappedWords THEN {}
    ELSE LET mappings == MappingsOf(word_lower)
         IN  { mappings[j].terms :
                 j \in { k \in DOMAIN mappings :
                           mappings[k].context = context } }

C21_TermPriority ==
    (called = "_build_context_aware_search_terms") =>
        LET topic == TermTopicOf[arg_text]
            specific == IF topic = <<>> THEN {}
                        ELSE EntriesFor(Lower(arg_word), topic)
            default == EntriesFor(Lower(arg_word), DefaultContext)
        IN  /\ ret # <<>>
            /\ IF specific # {} THEN ret \in specific
               ELSE IF default # {} THEN ret \in default
               ELSE IF topic = <<"p","r","o","g","r","a","m","m","i","n","g">>
               THEN ret = << arg_word \o <<" ","(","p","r","o","g","r","a","m","m","i","n","g",")">>,
                             arg_word \o <<" ","(","c","o","m","p","u","t","e","r"," ","s","c","i","e","n","c","e",")">>,
                             arg_word \o <<" ","(","c","o","m","p","u","t","i","n","g",")">>,
                             arg_word >>
               ELSE IF topic = <<"t","e","c","h","_","c","o","m","p","a","n","y">>
               THEN ret = << arg_word \o <<" ","I","n","c",".">>,
                             arg_word \o <<" ","(","c","o","m","p","a","n","y",")">>,
                             arg_word >>
               ELSE ret = << arg_word >>

\* "Bank" in a finance context had the finance entry, not the default one.
C21_Witness ==
    /\ called = "_build_context_aware_search_terms"
    /\ arg_word = <<"B","a","n","k">>
    /\ arg_text = <<"m","o","n","e","y">>
    /\ ret = << <<"B","a","n","k">>, <<"F","i","n","a","n","c","i","a","l"," ","i","n","s","t","i","t","u","t","i","o","n">> >>

\* "Bank" in a context of another topic had the default entry.
C21_WitnessDefault ==
    /\ called = "_build_context_aware_search_terms"
    /\ arg_word = <<"B","a","n","k">>
    /\ arg_text = <<"t","v">>
    /\ ret = << <<"B","a","n","k">> >>

\* "Python", which has no default entry, had the generic company variants.
C21_WitnessGeneric ==
    /\ called = "_build_context_aware_search_terms"
    /\ arg_word = <<"P","y","t","h","o","n">>
    /\ arg_text = <<"l","a","u","n","c","h","e","d">>
    /\ ret = << <<"P","y","t","h","o","n"," ","I","n","c",".">>, <<"P","y","t","h","o","n"," ","(","c","o","m","p","a","n","y",")">>, <<"P","y","t","h","o","n">> >>

\* A word outside the table, in a context of no topic, had itself alone.
C21_WitnessPlain ==
    /\ called = "_build_context_aware_search_terms"
    /\ arg_word = <<"f","o","o","d"," ","b","a","n","k">>
    /\ arg_text = <<"z","q">>
    /\ ret = << <<"f","o","o","d"," ","b","a","n","k">> >>

-----------------------------------------------------------------------------
\* C28: for the word 'bug', topic 'insect' gives the terms 'Insect',
\* 'Bug (insect)', 'True bugs' and topic 'surveillance' gives 'Covert
\* listening device', 'Wiretap', 'Surveillance device'.

C28_BugTerms ==
    (called = "_build_context_aware_search_terms"
        /\ Lower(arg_word) = <<"b","u","g">>) =>
        /\ TermTopicOf[arg_text] = <<"i","n","s","e","c","t">> =>
               ret = << <<"I","n","s","e","c","t">>, <<"B","u","g"," ","(","i","n","s","e","c","t",")">>, <<"T","r","u","e"," ","b","u","g","s">> >>
        /\ TermTopicOf[arg_text] = <<"s","u","r","v","e","i","l","l","a","n","c","e">> =>
               ret = << <<"C","o","v","e","r","t"," ","l","i","s","t","e","n","i","n","g"," ","d","e","v","i","c","e">>, <<"W","i","r","e","t","a","p">>,
                        <<"S","u","r","v","e","i","l","l","a","n","c","e"," ","d","e","v","i","c","e">> >>

-----------------------------------------------------------------------------
\* C29: the classifier answers the empty label or one of the 37 labels of
\* its score table, never 'geography' or 'math'; so the search terms built
\* are never an entry the table keeps under 'geography' or 'math'.

UnscoredLabels == { <<"g","e","o","g","r","a","p","h","y">>, <<"m","a","t","h">> }

C29_WitnessAmazon ==
    /\ called = "_build_context_aware_search_terms"
    /\ arg_word = <<"a","m","a","z","o","n">>
    /\ arg_text = <<"a","m","a","z","o","n"," ","r","i","v","e","r"," ","r","a","i","n","f","o","r","e","s","t">>
    /\ Len(ret) = 4
    /\ ret[4] = <<"a","m","a","z","o","n">>

-----------------------------------------------------------------------------
\* C22: on a cache miss get_wikipedia_summary requests the search terms in
\* list order, each at most once, and stops at the first term that gives a
\* usable summary: nothing is requested after a usable summary, and a term is
\* requested only after every earlier term gave none.

IsSearch(r) == r.step = "search"

\* The search requests of the call so far.
Searches == SelectSeq(requests, IsSearch)

C22_TermsInOrderUntilUsable ==
    (called = "get_wikipedia_summary") =>
        /\ Len(Searches) <= Len(search_terms)
        /\ \A i \in DOMAIN Searches : Searches[i].term = search_terms[i]
        /\ \A i \in DOMAIN requests : \A j \in DOMAIN requests :
               (i # j /\ requests[i].step = requests[j].step)
                   => requests[i].term # requests[j].term
        /\ \A i \in DOMAIN requests :
               requests[i].step = "summary" =>
                   /\ i > 1
                   /\ requests[i - 1].step = "search"
                   /\ requests[i - 1].term = requests[i].term
        /\ \A i \in DOMAIN requests :
               requests[i].usable => i = Len(requests)
        /\ summary # NoSummary =>
               /\ requests # <<>>
               /\ requests[Len(requests)].usable
               /\ lpc \in {"save", "done"}
        /\ hit => requests = <<>>

\* The first term gave nothing, the second a usable summary, the last two
\* of four were never requested.
C22_Witness ==
    /\ called = "get_wikipedia_summary"
    /\ lpc = "done"
    /\ Len(search_terms) = 4
    /\ Len(Searches) = 2
    /\ requests[Len(requests)].usable
    /\ requests[Len(requests)].term = search_terms[2]
    /\ ret = "summary"

-----------------------------------------------------------------------------
\* C23 as claimed: a failure while handling a term never propagates, the
\* lookup moves on to the next term, and when every term fails or any other
\* error occurs, cache read and write errors included, the call returns None.

C23_AnyErrorGivesNone ==
    (called = "get_wikipedia_summary" /\ lpc = "done") =>
        /\ ret \in Summaries
        /\ (~hit /\ \A i \in DOMAIN requests : ~requests[i].usable)
               => ret = NoSummary
        /\ (error \/ cache_error) => ret = NoSummary

\* C23 as amended: a failure while handling a term never reaches the outer
\* handler, the lookup moves on to the next term, and the call returns None
\* when every term failed or building the terms raised; a cache file that
\* cannot be read is a miss and a failed cache write is ignored: the call
\* still returns the summary of the first usable term.
C23_TermFailuresGiveNone ==
    (called = "get_wikipedia_summary") =>
        /\ error => (requests = <<>> /\ lpc = "done")
        /\ lpc = "done" =>
               /\ ret \in Summaries
               /\ error => ret = NoSummary
               /\ (~hit /\ ~error) =>
                      /\ ret = IF \E i \in DOMAIN requests : requests[i].usable
                               THEN "summary" ELSE NoSummary
                      /\ ret = NoSummary =>
                             Len(Searches) = Len(search_terms)

\* Every term failed, one by a timeout at its second request, and the cache
\* file could not be written: the call returned None.
C23_Witness ==
    /\ called = "get_wikipedia_summary"
    /\ lpc = "done"
    /\ ~hit
    /\ ~error
    /\ cache_error
    /\ Len(search_terms) = 2
    /\ Len(requests) = 3
    /\ ret = NoSummary

\* The cache file could not be written and the summary was returned all the
\* same.
C23_WitnessCacheError ==
    /\ called = "get_wikipedia_summary"
    /\ lpc = "done"
    /\ cache_error
    /\ ret = "summary"

-----------------------------------------------------------------------------
\* C25: a cache entry written by a lookup for one (term, detected topic) is
\* returned only to lookups with that same term and that same topic.

C25_KeyedByTermAndTopic ==
    (called = "get_wikipedia_summary" /\ lpc = "done" /\ hit) =>
        LET key == LookupKey(arg_word, arg_text)
        IN  /\ key \in DOMAIN written_for
            /\ written_for[key].word = arg_word
            /\ written_for[key].topic = LookupTopicOf[arg_text]

-----------------------------------------------------------------------------
\* C27: once a call has stored its result, the file stays as it is and
\* every later call with the same key returns the stored value without any
\* network request; this holds for a stored None as well.

C27_StoredAnswerIsFinal ==
    [][ /\ \A k \in DOMAIN written_for :
               /\ k \in DOMAIN wiki_cache
               /\ wiki_cache[k] # Unreadable
               /\ k \in DOMAIN wiki_cache'
               /\ wiki_cache'[k] = wiki_cache[k]
        /\ (/\ lookups' = lookups + 1
            /\ LookupKey(arg_word', arg_text') \in DOMAIN written_for)
               => /\ lpc' = "done"
                  /\ hit'
                  /\ requests' = <<>>
                  /\ ret' = wiki_cache[LookupKey(arg_word', arg_text')]
                  /\ wiki_cache' = wiki_cache
      ]_vars

\* A call was answered None from the cache, with no request.
C27_Witness ==
    /\ called = "get_wikipedia_summary"
    /\ lpc = "done"
    /\ hit
    /\ requests = <<>>
    /\ LookupKey(arg_word, arg_text) \in DOMAIN written_for
    /\ ret = NoSummary

-----------------------------------------------------------------------------
\* C24: the Wikipedia lookup never changes or fails the ranking: the best
\* sense and the ranked list are complete before the lookup starts, and the
\* lookup leaves them as they are whether it finds a summary, finds none
\* (or raises, which get_wikipedia_context turns into none) or is
\* unavailable; the page is then rendered with them.

C24_LookupLeavesRanking ==
    [][ (wiki_called' /\ ~wiki_called) =>
            /\ pc = "returned"
            /\ best # NoneSyn
            /\ combined # <<>>
            /\ best = combined[1].syn
            /\ pc' = "done"
            /\ best' = best
            /\ combined' = combined
            /\ candidates' = candidates
            /\ sentence' = sentence
            /\ target_word' = target_word
      ]_vars

\* The lookup found a summary for a request that ranked two senses.
C24_Witness ==
    /\ pc = "done"
    /\ wiki_called
    /\ wiki_context # NoContext
    /\ Len(combined) >= 2
    /\ best = combined[1].syn

\* The lookup was unavailable for a request that ranked two senses.
C24_WitnessUnavailable ==
    /\ pc = "done"
    /\ wiki_called
    /\ ~wikipedia_available
    /\ wiki_context = NoContext
    /\ Len(combined) >= 2
    /\ best = combined[1].syn

-----------------------------------------------------------------------------
\* C30: in every result of hybrid_predict the ranked list holds pairwise
\* distinct candidates, all from the lexical resource's answer for the
\* target word; every entry's normalized knowledge score and neural score
\* are the ones computed for that entry's own candidate; and best is None
\* exactly when the ranked list is empty.

C30_EntriesAligned ==
    (pc = "returned") =>
        LET answer == Synsets(Lower(target_word))
            ctx_tokens == simple_tokenize(sentence)
        IN  /\ \A p \in DOMAIN combined : \A q \in DOMAIN combined :
                   p # q => combined[p].syn # combined[q].syn
            /\ \A p \in DOMAIN combined :
                   \E i \in DOMAIN answer :
                       /\ answer[i] = combined[p].syn
                       /\ combined[p].kb =
                              knowledge_score(ctx_tokens, answer[i]) * EpsInv
                       /\ \E k \in DOMAIN bert_calls :
                              /\ bert_calls[k] = i
                              /\ bert_scores[k] = combined[p].nn
            /\ (best = NoneSyn) <=> (combined = <<>>)

\* Three senses were ranked; the first one selected was not the first
\* sense, and the entries differ in knowledge score and in neural score.
C30_Witness ==
    /\ pc = "returned"
    /\ Len(combined) = TOP_K
    /\ Len(candidates) > TOP_K
    /\ top_idx[1] # 1
    /\ \E p \in DOMAIN combined : \E q \in DOMAIN combined :
           /\ combined[p].kb # combined[q].kb
           /\ combined[p].nn # combined[q].nn

\* No sense: best is None and the ranked list is empty.
C30_WitnessNone ==
    /\ pc = "returned"
    /\ sentence # <<>>
    /\ best = NoneSyn
    /\ combined = <<>>

-----------------------------------------------------------------------------
\* C26: the keyword catalogs and the search-term mapping table are
\* read-only: whatever calls were made (each classifies its context, builds
\* its search terms and runs its lookup), nothing was assigned in them, so
\* they are what they were at the import.

====
